---- MODULE Spec2Model ----
(***************************************************************************)
(* Model of the BLT-Hackathons aggregation engine (src/js/index.js, class  *)
(* GitHubAPI at lines 624-1160): the aggregator (processPRData,            *)
(* processReviewData), the leaderboard builder and the paginated collector *)
(* with its multi-repository fan-out.                                      *)
(*                                                                         *)
(* Conventions:                                                            *)
(*  - a timestamp is a number of seconds since 1970-01-01T00:00:00Z (the   *)
(*    resolution of GitHub's ISO-8601 timestamps); a nullable timestamp is *)
(*    a sequence, <<>> for null and <<t>> for the timestamp t;             *)
(*  - a JavaScript string that the code inspects character by character    *)
(*    (login, title) is a sequence of one-character strings;               *)
(*  - a calendar date string "YYYY-MM-DD" is the triple <<YYYY, MM, DD>>;  *)
(*  - a Map or an object whose iteration order the code relies on is a     *)
(*    sequence in insertion order.                                         *)
(***************************************************************************)
EXTENDS Integers, Sequences, FiniteSets, TLC

(***************************************************************************)
(* Strings                                                                 *)
(***************************************************************************)
UpperChars == <<"A","B","C","D","E","F","G","H","I","J","K","L","M",
                "N","O","P","Q","R","S","T","U","V","W","X","Y","Z">>

LowerChars == <<"a","b","c","d","e","f","g","h","i","j","k","l","m",
                "n","o","p","q","r","s","t","u","v","w","x","y","z">>

\* String.prototype.toLowerCase on one character
toLowerChar(c) ==
    IF \E i \in 1..Len(UpperChars) : UpperChars[i] = c
    THEN LowerChars[CHOOSE i \in 1..Len(UpperChars) : UpperChars[i] = c]
    ELSE c

\* String.prototype.toLowerCase
toLowerCase(s) == [i \in 1..Len(s) |-> toLowerChar(s[i])]

\* String.prototype.includes
includes(s, needle) ==
    \E i \in 0..(Len(s) - Len(needle)) :
        SubSeq(s, i + 1, i + Len(needle)) = needle

str_bot      == <<"b","o","t">>
str_bracket_bot == <<"[","b","o","t","]">>
str_copilot  == <<"c","o","p","i","l","o","t">>
str_pr_merged_by_copilot ==
    <<"p","r"," ","m","e","r","g","e","d"," ","b","y"," ",
      "c","o","p","i","l","o","t">>

(***************************************************************************)
(* Dates                                                                   *)
(***************************************************************************)
\* seconds in one day of UTC, the calendar of toISOString
SecondsPerDay == 86400

\* Date.prototype.toISOString().split('T')[0]: the UTC calendar date of the
\* timestamp t, computed from the day number (proleptic Gregorian calendar)
toISODate(t) ==
    LET z   == (t \div SecondsPerDay) + 719468
        era == z \div 146097
        doe == z - era * 146097
        yoe == (doe - (doe \div 1460) + (doe \div 36524) - (doe \div 146096)) \div 365
        doy == doe - (365 * yoe + (yoe \div 4) - (yoe \div 100))
        mp  == (5 * doy + 2) \div 153
        d   == doy - ((153 * mp + 2) \div 5) + 1
        m   == IF mp < 10 THEN mp + 3 ELSE mp - 9
        y   == yoe + era * 400 + (IF m <= 2 THEN 1 ELSE 0)
    IN  <<y, m, d>>

\* The time zone of the runtime, as far as a run can see it: the offset of
\* local time from UTC (seconds) before and after one transition, and the
\* instant of the transition.  A zone without a transition in reach has
\* equal offsets.
Zone(before, after, at) == [before |-> before, after |-> after, at |-> at]

UTC == Zone(0, 0, 0)

\* America/New_York around the end of daylight saving time 2024:
\* UTC-4 until 2024-11-03T06:00:00Z, UTC-5 from then on
NewYorkFall2024 == Zone(-14400, -18000, 1730613600)

\* America/New_York around the start of daylight saving time 2024:
\* UTC-5 until 2024-03-10T07:00:00Z, UTC-4 from then on
NewYorkSpring2024 == Zone(-18000, -14400, 1710054000)

\* the local time value of the instant t (LocalTime)
localTime(t, zone) == t + (IF t < zone.at THEN zone.before ELSE zone.after)

\* the instant of a local time value (UTC(t)): a local time that exists once
\* is read with the offset in force at it; a local time that occurs twice
\* (the clock was set back) and a local time that the transition skips (the
\* clock was set forward) are both read with the offset before the
\* transition
utcOfLocal(local, zone) ==
    IF local - zone.before < zone.at THEN local - zone.before
    ELSE IF local - zone.after >= zone.at THEN local - zone.after
    ELSE local - zone.before

\* currentDate.setDate(currentDate.getDate() + 1): the same local time of
\* day on the next local calendar day
addLocalDay(t, zone) == utcOfLocal(localTime(t, zone) + SecondsPerDay, zone)

\* a nullable timestamp
NullTime == <<>>
Time(t) == <<t>>


(***************************************************************************)
(* JavaScript objects and arrays                                           *)
(***************************************************************************)
\* the object {} (no own keys)
EmptyObject == [k \in {} |-> 0]

\* obj[k] = v
SetKey(obj, k, v) == [x \in (DOMAIN obj) \cup {k} |-> IF x = k THEN v ELSE obj[x]]

\* Array.prototype.slice(0, end)
slice0(arr, end) ==
    LET n == Len(arr)
        e == IF end < 0 THEN (IF n + end < 0 THEN 0 ELSE n + end)
             ELSE (IF end > n THEN n ELSE end)
    IN  SubSeq(arr, 1, e)

\* Array.prototype.filter with the predicate "field f of the element is > 0"
RECURSIVE filterPositive(_, _)
filterPositive(arr, f) ==
    IF arr = <<>> THEN <<>>
    ELSE LET rest == filterPositive(Tail(arr), f)
         IN  IF Head(arr)[f] > 0 THEN <<Head(arr)>> \o rest ELSE rest

\* an insertion that puts x before its equals: a sort that is not stable
RECURSIVE insertDesc_beforeEquals(_, _, _)
insertDesc_beforeEquals(sorted, x, f) ==
    IF sorted = <<>> THEN <<x>>
    ELSE IF Head(sorted)[f] <= x[f] THEN <<x>> \o sorted
    ELSE <<Head(sorted)>> \o insertDesc_beforeEquals(Tail(sorted), x, f)

\* one insertion of the stable sort with comparator (a, b) => b[f] - a[f]:
\* x goes before the first element whose f is smaller and after its equals
RECURSIVE insertDesc(_, _, _)
insertDesc(sorted, x, f) ==
    IF sorted = <<>> THEN <<x>>
    ELSE IF Head(sorted)[f] < x[f] THEN <<x>> \o sorted
    ELSE <<Head(sorted)>> \o insertDesc(Tail(sorted), x, f)

\* Array.prototype.sort((a, b) => b[f] - a[f]) (stable since ES2019)
RECURSIVE sortDesc(_, _)
sortDesc(arr, f) ==
    IF arr = <<>> THEN <<>>
    ELSE insertDesc(sortDesc(SubSeq(arr, 1, Len(arr) - 1), f), arr[Len(arr)], f)

(***************************************************************************)
(* Aggregator: processPRData                                               *)
(***************************************************************************)
\* isBot with the toLowerCase() call dropped (case-sensitive match)
isBot_caseSensitive(username) ==
    includes(username, str_bracket_bot) \/ includes(username, str_bot)

\* isBot of processPRData and processReviewData
isBot(username) ==
    includes(username, str_bracket_bot) \/ includes(toLowerCase(username), str_bot)

\* isCopilot of processPRData (login and title)
isCopilotPR(username, title) ==
    \/ includes(toLowerCase(username), str_copilot)
    \/ includes(toLowerCase(title), str_pr_merged_by_copilot)
    \/ includes(toLowerCase(title), str_copilot)

\* isCopilot of processReviewData (login only)
isCopilotReview(username) == includes(toLowerCase(username), str_copilot)

\* `contributor_${username}`
contributorId(username) == <<"c","o","n","t","r","i","b","u","t","o","r","_">> \o username

\* index of the rollup with the given id in the leaderboard object, 0 if none
indexOfId(leaderboard, id) ==
    IF \E i \in 1..Len(leaderboard) : leaderboard[i].user.id = id
    THEN CHOOSE i \in 1..Len(leaderboard) : leaderboard[i].user.id = id
    ELSE 0

\* the rollup created for the first PR of a contributor
newRollup(pr, isMerged) ==
    [user |-> [username |-> pr.user.login, email |-> "",
               id |-> contributorId(pr.user.login)],
     count |-> 1,
     prs |-> <<pr>>,
     is_contributor |-> TRUE,
     avatar |-> pr.user.avatar_url,
     url |-> pr.user.html_url,
     reviews |-> <<>>,
     reviewCount |-> 0,
     mergedCount |-> IF isMerged THEN 1 ELSE 0]

\* a "Track by user" block that counts a further PR of a contributor without
\* keeping the record
trackByUser_countOnly(leaderboard, pr, isMerged) ==
    IF isBot(pr.user.login) \/ isCopilotPR(pr.user.login, pr.title)
    THEN leaderboard
    ELSE LET i == indexOfId(leaderboard, contributorId(pr.user.login))
         IN  IF i > 0
             THEN [leaderboard EXCEPT
                     ![i].count = @ + 1,
                     ![i].mergedCount = IF isMerged THEN @ + 1 ELSE @]
             ELSE Append(leaderboard, newRollup(pr, isMerged))

\* the "Track by user" block: the leaderboard object after one PR
trackByUser(leaderboard, pr, isMerged) ==
    IF isBot(pr.user.login) \/ isCopilotPR(pr.user.login, pr.title)
    THEN leaderboard
    ELSE LET i == indexOfId(leaderboard, contributorId(pr.user.login))
         IN  IF i > 0
             THEN [leaderboard EXCEPT
                     ![i].count = @ + 1,
                     ![i].prs = Append(@, pr),
                     ![i].mergedCount = IF isMerged THEN @ + 1 ELSE @]
             ELSE Append(leaderboard, newRollup(pr, isMerged))

\* the loop "while (currentDate <= endDate)": one zero bucket per step
RECURSIVE initDailyActivity(_, _, _, _)
initDailyActivity(dailyActivity, currentDate, endDate, zone) ==
    IF currentDate <= endDate
    THEN initDailyActivity(
             SetKey(dailyActivity, toISODate(currentDate), [total |-> 0, merged |-> 0]),
             addLocalDay(currentDate, zone), endDate, zone)
    ELSE dailyActivity

\* the "Track daily activity" block
trackDaily(dailyActivity, pr, isMerged, startDate, endDate) ==
    LET createdDate == toISODate(pr.created_at)
        relevantByCreation == pr.created_at >= startDate /\ pr.created_at <= endDate
        d1 == IF createdDate \in DOMAIN dailyActivity /\ relevantByCreation
              THEN [dailyActivity EXCEPT ![createdDate].total = @ + 1]
              ELSE dailyActivity
    IN  IF isMerged
        THEN LET mergedDate == toISODate(pr.merged_at[1])
             IN  IF mergedDate \in DOMAIN d1
                 THEN [d1 EXCEPT ![mergedDate].merged = @ + 1]
                 ELSE d1
        ELSE d1

\* the "Track repo statistics" block
trackRepo(repoStats, pr, isMerged) ==
    LET repo == pr.repository
        r0 == IF repo \in DOMAIN repoStats THEN repoStats
              ELSE SetKey(repoStats, repo,
                          [total |-> 0, merged |-> 0, issues |-> 0, closedIssues |-> 0])
    IN  [r0 EXCEPT ![repo].total = @ + 1,
                   ![repo].merged = IF isMerged THEN @ + 1 ELSE @]

\* the body of prs.forEach(pr => ...): the daily buckets are initialised
\* inside the loop body, once per PR
processOnePR(acc, pr, startDate, endDate, zone) ==
    LET isMerged == pr.merged_at # NullTime
    IN  [mergedPRs |-> IF isMerged THEN acc.mergedPRs + 1 ELSE acc.mergedPRs,
         leaderboard |-> trackByUser(acc.leaderboard, pr, isMerged),
         dailyActivity |->
             trackDaily(initDailyActivity(acc.dailyActivity, startDate, endDate, zone),
                        pr, isMerged, startDate, endDate),
         repoStats |-> trackRepo(acc.repoStats, pr, isMerged)]

\* the objects processPRData creates when it is entered: the stats object
\* with its counters and the leaderboard object, all of them empty
newStats ==
    [mergedPRs |-> 0, leaderboard |-> <<>>,
     dailyActivity |-> EmptyObject, repoStats |-> EmptyObject]

\* the stats object processPRData returns: totalPRs is prs.length and the
\* participants Map holds the rollups of the leaderboard object in their
\* order of insertion
returnStats(prs, acc) ==
    [totalPRs |-> Len(prs),
     mergedPRs |-> acc.mergedPRs,
     participants |-> acc.leaderboard,
     dailyActivity |-> acc.dailyActivity,
     repoStats |-> acc.repoStats]

\* prs.forEach over the first n records
RECURSIVE forEachPR(_, _, _, _, _)
forEachPR(prs, n, startDate, endDate, zone) ==
    IF n = 0
    THEN newStats
    ELSE processOnePR(forEachPR(prs, n - 1, startDate, endDate, zone), prs[n],
                      startDate, endDate, zone)

\* processPRData counting only the records that reach a contributor rollup
processPRData_humansOnly(prs, startDate, endDate, zone) ==
    LET acc == forEachPR(prs, Len(prs), startDate, endDate, zone)
        human(pr) == ~isBot(pr.user.login) /\ ~isCopilotPR(pr.user.login, pr.title)
    IN  [totalPRs |-> Cardinality({i \in 1..Len(prs) : human(prs[i])}),
         mergedPRs |-> Cardinality({i \in 1..Len(prs) :
                                     human(prs[i]) /\ prs[i].merged_at # NullTime}),
         participants |-> acc.leaderboard,
         dailyActivity |-> acc.dailyActivity,
         repoStats |-> acc.repoStats]

\* GitHubAPI.processPRData, run in the time zone `zone`; participants is
\* the Map in insertion order
processPRData(prs, startDate, endDate, zone) ==
    returnStats(prs, forEachPR(prs, Len(prs), startDate, endDate, zone))

(***************************************************************************)
(* Aggregator: processReviewData                                           *)
(***************************************************************************)
\* index of the participant keyed by username, 0 if participants.has is false
indexOfUser(participants, username) ==
    IF \E i \in 1..Len(participants) : participants[i].user.username = username
    THEN CHOOSE i \in 1..Len(participants) : participants[i].user.username = username
    ELSE 0

\* the zero-initialised rollup created for a reviewer without PRs
newReviewer(review) ==
    [user |-> [username |-> review.user.login, email |-> "",
               id |-> contributorId(review.user.login)],
     count |-> 0,
     prs |-> <<>>,
     is_contributor |-> TRUE,
     avatar |-> review.user.avatar_url,
     url |-> review.user.html_url,
     reviews |-> <<>>,
     reviewCount |-> 0,
     mergedCount |-> 0]

\* a loop body that folds DISMISSED reviews in as well
processOneReview_countsDismissed(participants, review) ==
    LET username == review.user.login
    IN  IF ~isBot(username) /\ ~isCopilotReview(username)
        THEN LET i0 == indexOfUser(participants, username)
                 ps == IF i0 = 0 THEN Append(participants, newReviewer(review))
                       ELSE participants
                 i  == IF i0 = 0 THEN Len(ps) ELSE i0
                 stored == [review EXCEPT
                              !.html_url = IF review.pull_request_url # ""
                                           THEN review.pull_request_url ELSE @]
             IN  [ps EXCEPT ![i].reviews = Append(@, stored),
                            ![i].reviewCount = @ + 1]
        ELSE participants

\* the body of reviews.forEach(review => ...)
processOneReview(participants, review) ==
    LET username == review.user.login
    IN  IF ~isBot(username) /\ ~isCopilotReview(username) /\ review.state # "DISMISSED"
        THEN LET i0 == indexOfUser(participants, username)
                 ps == IF i0 = 0 THEN Append(participants, newReviewer(review))
                       ELSE participants
                 i  == IF i0 = 0 THEN Len(ps) ELSE i0
                 stored == [review EXCEPT
                              !.html_url = IF review.pull_request_url # ""
                                           THEN review.pull_request_url ELSE @]
             IN  [ps EXCEPT ![i].reviews = Append(@, stored),
                            ![i].reviewCount = @ + 1]
        ELSE participants

\* GitHubAPI.processReviewData: the participants Map after the call
RECURSIVE processReviewData(_, _)
processReviewData(reviews, participants) ==
    IF reviews = <<>> THEN participants
    ELSE processReviewData(Tail(reviews), processOneReview(participants, Head(reviews)))

(***************************************************************************)
(* Aggregator: processIssueData                                            *)
(***************************************************************************)
\* a loop body that counts every issue as closed
processOneIssue_allClosed(repoStats, issue) ==
    LET repo == issue.repository
        r0 == IF repo \in DOMAIN repoStats THEN repoStats
              ELSE SetKey(repoStats, repo,
                          [total |-> 0, merged |-> 0, issues |-> 0, closedIssues |-> 0])
    IN  [r0 EXCEPT ![repo].issues = @ + 1, ![repo].closedIssues = @ + 1]

\* the body of issues.forEach(issue => ...)
processOneIssue(repoStats, issue) ==
    LET repo == issue.repository
        r0 == IF repo \in DOMAIN repoStats THEN repoStats
              ELSE SetKey(repoStats, repo,
                          [total |-> 0, merged |-> 0, issues |-> 0, closedIssues |-> 0])
    IN  [r0 EXCEPT ![repo].issues = @ + 1,
                   ![repo].closedIssues = IF issue.state = "closed" THEN @ + 1 ELSE @]

\* issues.forEach over the first n issues: repoStats after the loop
RECURSIVE forEachIssue(_, _, _)
forEachIssue(issues, n, repoStats) ==
    IF n = 0 THEN repoStats
    ELSE processOneIssue(forEachIssue(issues, n - 1, repoStats), issues[n])

\* GitHubAPI.processIssueData: repoStats as the call leaves it, and the
\* returned summary
processIssueData(issues, repoStats) ==
    LET isClosed(i) == i.state = "closed"
    IN  [repoStats |-> forEachIssue(issues, Len(issues), repoStats),
         totalIssues |-> Len(issues),
         closedIssues |-> Len(SelectSeq(issues, isClosed))]

(***************************************************************************)
(* Leaderboard builder                                                     *)
(***************************************************************************)
\* the view object of generateLeaderboard
prView(p) ==
    [user |-> p.user, count |-> p.mergedCount, prs |-> p.prs,
     is_contributor |-> p.is_contributor, username |-> p.user.username,
     avatar |-> p.avatar, url |-> p.url, mergedCount |-> p.mergedCount]

\* the view object of generateReviewLeaderboard
reviewView(p) ==
    [user |-> p.user, count |-> p.reviewCount, reviews |-> p.reviews,
     is_contributor |-> p.is_contributor, username |-> p.user.username,
     avatar |-> p.avatar, url |-> p.url, reviewCount |-> p.reviewCount]

\* generateLeaderboard with the .sort(...) step dropped
generateLeaderboard_unsorted(participants, limit) ==
    LET ranked == slice0(filterPositive(participants, "mergedCount"), limit)
    IN  [i \in 1..Len(ranked) |-> prView(ranked[i])]

\* GitHubAPI.generateLeaderboard
generateLeaderboard(participants, limit) ==
    LET ranked == slice0(sortDesc(filterPositive(participants, "mergedCount"),
                                  "mergedCount"), limit)
    IN  [i \in 1..Len(ranked) |-> prView(ranked[i])]

\* GitHubAPI.generateReviewLeaderboard
generateReviewLeaderboard(participants, limit) ==
    LET ranked == slice0(sortDesc(filterPositive(participants, "reviewCount"),
                                  "reviewCount"), limit)
    IN  [i \in 1..Len(ranked) |-> reviewView(ranked[i])]


(***************************************************************************)
(* Inputs of the aggregation run                                           *)
(***************************************************************************)
\* bound: number of PR and review records handed to one aggregation run
MaxRecords == 4
\* bound: largest configured display.maxLeaderboardEntries
MaxLimit == 2

\* 2024-10-01T00:00:00Z, the startTime of the example configuration
Oct1 == 19997 * SecondsPerDay

\* the timestamp of October `day`, 2024, `secs` seconds after midnight UTC
At(day, secs) == Oct1 + (day - 1) * SecondsPerDay + secs

\* the configured windows [startTime, endTime]: whole days, and a window
\* that ends earlier in the day than it starts
Windows ==
    { <<At(1, 0), At(3, 86399)>>,
      <<At(1, 43200), At(3, 21600)>> }

\* a window around the end of daylight saving time in New York:
\* 2024-11-01T23:30:00Z to 2024-11-05T23:59:59Z
DstWindow == <<At(32, 84600), At(36, 86399)>>

\* a window around the start of daylight saving time in New York, which
\* starts at 02:30 local time, the time that the next day skips:
\* 2024-03-09T07:30:00Z to 2024-03-10T07:00:00Z
DstStartWindow == <<At(-205, 27000), At(-204, 25200)>>

\* the runs of the aggregation: a configured window and the time zone of
\* the browser.  No zone has a transition in reach of the October windows,
\* where a local calendar day is 86400 seconds in every zone.
Runtimes ==
    { <<w[1], w[2], UTC>> : w \in Windows }
        \cup { <<DstWindow[1], DstWindow[2], zone>> : zone \in {UTC, NewYorkFall2024} }
        \cup { <<DstStartWindow[1], DstStartWindow[2], NewYorkSpring2024>> }

alice == <<"a","l","i","c","e">>
bob   == <<"b","o","b">>
carol == <<"c","a","r","o","l">>
some_bot == <<"s","o","m","e","-","b","o","t","[","b","o","t","]">>
Copilot  == <<"C","o","p","i","l","o","t">>
RoBOT    == <<"R","o","B","O","T">>

Logins == {alice, bob, carol, some_bot, Copilot, RoBOT}

\* the logins matching /bot/i or /copilot/i
AutomationLogins == {some_bot, Copilot, RoBOT}

title_fix == <<"F","i","x"," ","t","y","p","o">>
title_copilot == <<"A","d","d"," ","C","o","p","i","l","o","t"," ","h","i","n","t","s">>

\* the user object of a GitHub record
User(login, n) == [login |-> login, avatar_url |-> <<"avatar", n>>, html_url |-> <<"profile", login>>]

\* a repository path "owner/name", split at the slash
r1 == <<"o", "r1">>
r2 == <<"o", "r2">>
r3 == <<"o", "r3">>

\* the configured repository lists of the aggregation runs
RepoLists == { <<r1>>, <<r2>>, <<r1, r2>> }

\* a pull request of the GitHub pulls listing
RawPR(number, login, title, created, merged) ==
    [number |-> number, user |-> User(login, number), title |-> title,
     created_at |-> created, merged_at |-> merged]

\* { ...record, repository: `${owner}/${repo}` }
withRepository(record, owner, repo) == SetKey(record, "repository", <<owner, repo>>)

\* a pull request as returned by fetchPullRequests
PR(number, login, title, created, merged, repoPath) ==
    withRepository(RawPR(number, login, title, created, merged), repoPath[1], repoPath[2])

\* the pull requests the aggregation runs draw from
PRPool ==
    { PR(1, alice, title_fix, At(1, 0), Time(At(2, 43200)), r1),
      PR(2, alice, title_fix, At(2, 50000), Time(At(2, 60000)), r2),
      PR(3, bob, title_fix, At(3, 86399), NullTime, r1),
      PR(4, some_bot, title_fix, At(2, 50000), Time(At(3, 3600)), r1),
      PR(5, bob, title_fix, At(0, 3600), Time(At(1, 50000)), r2),
      PR(6, carol, title_fix, At(3, 3600), Time(At(4, 3600)), r1),
      PR(7, carol, title_copilot, At(2, 3600), Time(At(2, 7200)), r2),
      PR(8, Copilot, title_fix, At(2, 3600), NullTime, r1),
      PR(9, alice, title_fix, At(33, 3600), Time(At(34, 43200)), r1),
      PR(10, bob, title_fix, At(-204, 24300), NullTime, r2) }

\* the inclusion test of fetchPullRequests: what getAllPullRequests can return
relevantPR(pr, startDate, endDate) ==
    \/ pr.created_at >= startDate /\ pr.created_at <= endDate
    \/ /\ pr.merged_at # NullTime
       /\ pr.merged_at[1] >= startDate /\ pr.merged_at[1] <= endDate

\* a review as returned by getAllReviews
Review(id, login, state) ==
    [id |-> id, user |-> User(login, id), state |-> state,
     html_url |-> <<"review", id>>, pull_request_url |-> <<"pull", id>>]

\* the reviews the aggregation runs draw from
ReviewPool ==
    { Review(1, alice, "APPROVED"),
      Review(2, carol, "COMMENTED"),
      Review(3, bob, "DISMISSED"),
      Review(4, RoBOT, "APPROVED"),
      Review(5, Copilot, "CHANGES_REQUESTED") }

(***************************************************************************)
(* Fetch client and paginated collector                                    *)
(***************************************************************************)
\* const perPage = 100 (fetchPullRequests and fetchIssues)
perPage == 100
\* const maxPages = 20 (fetchPullRequests and fetchIssues)
maxPages == 20
\* makeRequest: "Cache for 5 minutes", in milliseconds
CacheTTL == 5 * 60 * 1000

Kinds == {"pulls", "issues"}

\* the listing URL `${baseURL}/repos/${owner}/${repo}/${kind}?...&page=${page}`
listingUrl(kind, owner, repo, page) == <<kind, owner, repo, perPage, page>>

\* a cache test that still accepts an entry aged exactly five minutes
cacheHit_inclusive(cache, url, now) ==
    /\ url \in DOMAIN cache
    /\ now - cache[url].timestamp <= CacheTTL

\* makeRequest, the cache test: a fresh entry for exactly this URL
cacheHit(cache, url, now) ==
    /\ url \in DOMAIN cache
    /\ now - cache[url].timestamp < CacheTTL

\* a cache write that keeps an entry that is already there
cacheSet_keepFirst(cache, url, data, now) ==
    IF url \in DOMAIN cache THEN cache
    ELSE SetKey(cache, url, [data |-> data, timestamp |-> now])

\* makeRequest, this.cache.set(url, {data, timestamp: Date.now()})
cacheSet(cache, url, data, now) ==
    SetKey(cache, url, [data |-> data, timestamp |-> now])

\* an issue of the GitHub issues listing; pull_request tells whether the
\* record carries a pull_request field (it is a pull request)
RawIssue(number, login, title, created, closed, isPull) ==
    [number |-> number, user |-> User(login, number), title |-> title,
     created_at |-> created, closed_at |-> closed,
     state |-> IF closed = NullTime THEN "open" ELSE "closed",
     pull_request |-> isPull]

\* position of the record at which a for loop that breaks on an old record
\* stops, given for each record of the page whether it is old: the first
\* old record, or the last record of the page
stopIndex(old) ==
    IF \E i \in 1..Len(old) : old[i]
    THEN CHOOSE i \in 1..Len(old) : old[i] /\ \A j \in 1..(i - 1) : ~old[j]
    ELSE Len(old)

\* a page loop that does not stop at the first record created before
\* startDate
scanPRs_noBreak(page, allPRs, scanned, owner, repo, start, end) ==
    LET relevant(pr) ==
            \/ pr.created_at >= start /\ pr.created_at <= end
            \/ /\ pr.merged_at # NullTime
               /\ pr.merged_at[1] >= start /\ pr.merged_at[1] <= end
        pushed == SelectSeq(page, relevant)
    IN  [all |-> allPRs \o [i \in 1..Len(pushed) |-> withRepository(pushed[i], owner, repo)],
         foundOld |-> FALSE,
         scanned |-> scanned + Len(page)]

\* the for loop of fetchPullRequests over one page: every record up to and
\* including the first one created before startDate is tested and, if
\* relevant, pushed with its repository; scanned counts the records the loop
\* has examined
scanPRs(page, allPRs, scanned, owner, repo, start, end) ==
    LET isOld(pr) == pr.created_at < start
        relevant(pr) ==
            \/ pr.created_at >= start /\ pr.created_at <= end
            \/ /\ pr.merged_at # NullTime
               /\ pr.merged_at[1] >= start /\ pr.merged_at[1] <= end
        last == stopIndex([i \in 1..Len(page) |-> isOld(page[i])])
        pushed == SelectSeq(SubSeq(page, 1, last), relevant)
    IN  [all |-> allPRs \o [i \in 1..Len(pushed) |-> withRepository(pushed[i], owner, repo)],
         foundOld |-> \E i \in 1..Len(page) : isOld(page[i]),
         scanned |-> scanned + last]

\* the for loop of fetchIssues without the `if (issue.pull_request) continue`
scanIssues_keepsPulls(page, allIssues, scanned, owner, repo, start, end) ==
    LET isOld(issue) == issue.created_at < start
        relevant(issue) ==
            \/ issue.created_at >= start /\ issue.created_at <= end
            \/ /\ issue.closed_at # NullTime
               /\ issue.closed_at[1] >= start /\ issue.closed_at[1] <= end
        last == stopIndex([i \in 1..Len(page) |-> isOld(page[i])])
        pushed == SelectSeq(SubSeq(page, 1, last), relevant)
    IN  [all |-> allIssues \o [i \in 1..Len(pushed) |-> withRepository(pushed[i], owner, repo)],
         foundOld |-> \E i \in 1..Len(page) : isOld(page[i]),
         scanned |-> scanned + last]

\* the for loop of fetchIssues over one page: records with a pull_request
\* field are skipped before any test (continue)
scanIssues(page, allIssues, scanned, owner, repo, start, end) ==
    LET isOld(issue) == ~issue.pull_request /\ issue.created_at < start
        relevant(issue) ==
            /\ ~issue.pull_request
            /\ \/ issue.created_at >= start /\ issue.created_at <= end
               \/ /\ issue.closed_at # NullTime
                  /\ issue.closed_at[1] >= start /\ issue.closed_at[1] <= end
        last == stopIndex([i \in 1..Len(page) |-> isOld(page[i])])
        pushed == SelectSeq(SubSeq(page, 1, last), relevant)
    IN  [all |-> allIssues \o [i \in 1..Len(pushed) |-> withRepository(pushed[i], owner, repo)],
         foundOld |-> \E i \in 1..Len(page) : isOld(page[i]),
         scanned |-> scanned + last]

\* the for loop of the collector of the given kind over one page
scanPage(kind, page, all, scanned, owner, repo, start, end) ==
    IF kind = "pulls"
    THEN scanPRs(page, all, scanned, owner, repo, start, end)
    ELSE scanIssues(page, all, scanned, owner, repo, start, end)

\* a collector (one activation of fetchPullRequests or fetchIssues) that has
\* not been called
IdleCollector ==
    [pc |-> "idle", page |-> 1, all |-> <<>>, data |-> <<>>,
     requests |-> 0, scanned |-> 0, failed |-> FALSE]

\* return allPRs / return allIssues
finish(c) == [c EXCEPT !.pc = "done", !.data = <<>>]

\* a loop head without the page limit: while (true)
loopHead_noCap(c, kind, repoPath, cache, now) ==
    LET url == listingUrl(kind, repoPath[1], repoPath[2], c.page)
    IN  IF cacheHit(cache, url, now)
        THEN [c EXCEPT !.pc = "cached", !.data = cache[url].data,
                       !.requests = @ + 1]
        ELSE [c EXCEPT !.pc = "awaiting", !.data = <<>>, !.requests = @ + 1]

\* the head of "while (page <= maxPages)" up to the await inside
\* makeRequest: either the cached payload is returned ("cached") or the
\* network request is sent ("awaiting")
loopHead(c, kind, repoPath, cache, now) ==
    IF c.page > maxPages THEN finish(c)
    ELSE LET url == listingUrl(kind, repoPath[1], repoPath[2], c.page)
         IN  IF cacheHit(cache, url, now)
             THEN [c EXCEPT !.pc = "cached", !.data = cache[url].data,
                            !.requests = @ + 1]
             ELSE [c EXCEPT !.pc = "awaiting", !.data = <<>>, !.requests = @ + 1]

\* a loop body that does not stop at an empty page
afterPage_noEmptyBreak(c, data, kind, repoPath, cache, now, start, end) ==
    LET r == scanPage(kind, data, c.all, c.scanned,
                      repoPath[1], repoPath[2], start, end)
        c1 == [c EXCEPT !.all = r.all, !.scanned = r.scanned]
    IN  IF r.foundOld THEN finish(c1)
        ELSE loopHead([c1 EXCEPT !.page = @ + 1], kind, repoPath, cache, now)

\* the loop body after makeRequest has returned `data`, and on to the next
\* loop head
afterPage(c, data, kind, repoPath, cache, now, start, end) ==
    IF Len(data) = 0 THEN finish(c)
    ELSE LET r == scanPage(kind, data, c.all, c.scanned,
                           repoPath[1], repoPath[2], start, end)
             c1 == [c EXCEPT !.all = r.all, !.scanned = r.scanned]
         IN  IF r.foundOld THEN finish(c1)
             ELSE loopHead([c1 EXCEPT !.page = @ + 1], kind, repoPath, cache, now)

\* a catch block that throws away the records of the earlier pages
afterError_dropsPartial(c) == [finish(c) EXCEPT !.failed = TRUE, !.all = <<>>]

\* the catch block of the collector: log and break
afterError(c) == [finish(c) EXCEPT !.failed = TRUE]

\* a combination that a failed collection disrupts: the results of the
\* repositories listed before it are lost
RECURSIVE combine_failFast(_, _)
combine_failFast(collectors, n) ==
    IF n = 0 \/ collectors[n].failed THEN <<>>
    ELSE combine_failFast(collectors, n - 1) \o collectors[n].all

\* a combination in the reverse of the order of the repository list, as
\* when the results are pushed as the fetches complete and the last
\* repository completes first
RECURSIVE combine_lastFirst(_, _)
combine_lastFirst(collectors, n) ==
    IF n = 0 THEN <<>>
    ELSE collectors[n].all \o combine_lastFirst(collectors, n - 1)

\* results.forEach(...): the fulfilled values concatenated in the order of
\* the repository list
RECURSIVE combine(_, _)
combine(collectors, n) ==
    IF n = 0 THEN <<>>
    ELSE combine(collectors, n - 1) \o collectors[n].all

(***************************************************************************)
(* The remote listings                                                     *)
(***************************************************************************)
\* a listing is described by its newest records, a number of consecutive
\* records created inside the window one second apart, and its oldest
\* records: newer \o fillers \o older, in descending creation order
ListingLen(d) == Len(d.newer) + d.fill + Len(d.older)

\* creation time of the first filler record: 2024-10-02T12:00:00Z
FillBase == At(2, 43200)

\* the k-th filler record of a listing
Filler(kind, k) ==
    IF kind = "pulls"
    THEN RawPR(100000 - k, IF k % 2 = 0 THEN alice ELSE bob, title_fix,
               FillBase - k, NullTime)
    ELSE RawIssue(100000 - k, IF k % 2 = 0 THEN alice ELSE bob, title_fix,
                  FillBase - k, NullTime, k % 3 = 0)

\* the j-th record of the listing
ListingAt(d, kind, j) ==
    IF j <= Len(d.newer) THEN d.newer[j]
    ELSE IF j <= Len(d.newer) + d.fill THEN Filler(kind, j - Len(d.newer))
    ELSE d.older[j - Len(d.newer) - d.fill]

\* the payload GitHub returns for ?per_page=100&page=`page`
ServerPage(d, kind, page) ==
    LET lo == (page - 1) * perPage
        left == ListingLen(d) - lo
        n == IF left < 0 THEN 0 ELSE IF left > perPage THEN perPage ELSE left
    IN  [j \in 1..n |-> ListingAt(d, kind, lo + j)]

(***************************************************************************)
(* State                                                                   *)
(***************************************************************************)
VARIABLES
    tz,             \* the time zone of the runtime (local time of Date)
    call,           \* the processPRData call that is followed record by record
    startDate,      \* new Date(config.startTime)
    endDate,        \* new Date(config.endTime)
    prs,            \* the PR records handed to processPRData
    reviews,        \* the review records handed to processReviewData
    aggPc,          \* position of the aggregation run in HackathonDashboard.init
    stats,          \* the stats object returned by processPRData
    limit,          \* the limit argument of the generateLeaderboard calls
    leaderboard,    \* result of generateLeaderboard
    reviewLeaderboard  \* result of generateReviewLeaderboard

aggVars == <<tz, call, startDate, endDate, prs, reviews, aggPc, stats, limit, leaderboard, reviewLeaderboard>>

VARIABLES
    repositories,   \* config.github.repositories
    server,         \* the remote listings: repository path -> kind -> listing
    now,            \* Date.now(), in milliseconds since the client was constructed
    cache,          \* GitHubAPI.cache: url -> {data, timestamp}
    lookups,        \* the fetchRepository / fetchUser / getAllRepositories calls
    coll,           \* coll[kind][i]: the collector called for repositories[i]
    round           \* round[kind]: the getAllPullRequests / getAllIssues call

fetchVars == <<repositories, server, now, cache, lookups, coll, round>>

VARIABLES
    config,         \* config.github: the organization and the explicit repositories
    orgListing,     \* the answer to the organization's repository listing
    rev,            \* the getAllReviews call of the dashboard
    view            \* what the page shows

dashVars == <<config, orgListing, rev, view>>

vars == <<aggVars, fetchVars, dashVars>>

\* no stats object yet
NoStats ==
    [totalPRs |-> 0, mergedPRs |-> 0, participants |-> <<>>,
     dailyActivity |-> EmptyObject, repoStats |-> EmptyObject]

\* no processPRData call is followed: pc is the position of the call, i the
\* index of the record forEach hands to the callback next, acc the stats
\* and leaderboard objects of the call; given holds the records as they were
\* handed to the first call and first the object the first call returned
NoCall ==
    [pc |-> "idle", i |-> 0, acc |-> newStats, given |-> <<>>, first |-> NoStats]

\* no getAll* call yet
IdleRound == [pc |-> "idle", result |-> <<>>, calls |-> 0]

\* no organization is configured
NoOrganization == "none"

\* a getAllReviews call that has not been made
IdleReviews ==
    [pc |-> "idle", i |-> 0, c |-> IdleCollector, replies |-> <<>>,
     all |-> <<>>, fetches |-> 0, failures |-> 0]

\* the page while init runs: nothing of the run is shown yet
LoadingView == [state |-> "loading", message |-> "", shown |-> <<>>]

\* updateStats: the Quick Stats panel
updateStats(s, resolved) ==
    [participantCount |-> Len(s.participants),
     prCount |-> s.totalPRs,
     mergedPrCount |-> s.mergedPRs,
     issueCount |-> s.totalIssues,
     repoCount |-> Len(resolved)]

\* showError(message)
showError(message) == [state |-> "error", message |-> message, shown |-> <<>>]

\* the organization's listing has not been requested
NotRequested == [status |-> "none", repos |-> <<>>]

\* a dashboard whose configuration is its repository list and whose fetch
\* stages are driven one by one
DashIdle ==
    /\ config = [organization |-> NoOrganization, repositories |-> repositories]
    /\ orgListing = NotRequested
    /\ rev = IdleReviews
    /\ view = LoadingView

\* no call of fetchRepository, fetchUser or getAllRepositories has been made
NoLookups == [made |-> 0, calls |-> <<>>, bulks |-> <<>>]

\* a client on which no request is ever made
FetchIdle ==
    /\ server = EmptyObject
    /\ now = 0
    /\ cache = EmptyObject
    /\ lookups = NoLookups
    /\ coll = [k \in Kinds |-> <<>>]
    /\ round = [k \in Kinds |-> IdleRound]
    /\ DashIdle

AggInit ==
    /\ repositories \in RepoLists
    /\ FetchIdle
    /\ \E rt \in Runtimes : startDate = rt[1] /\ endDate = rt[2] /\ tz = rt[3]
    /\ prs = <<>>
    /\ reviews = <<>>
    /\ aggPc = "fetched"
    /\ stats = NoStats
    /\ limit = 0 /\ call = NoCall
    /\ leaderboard = <<>>
    /\ reviewLeaderboard = <<>>

\* one more PR record in the result of getAllPullRequests
AddPR ==
    /\ aggPc = "fetched"
    /\ Len(prs) + Len(reviews) < MaxRecords
    /\ \E pr \in PRPool :
          /\ \E i \in 1..Len(repositories) : repositories[i] = pr.repository
          /\ relevantPR(pr, startDate, endDate)
          /\ prs' = Append(prs, pr)
    /\ UNCHANGED <<fetchVars, dashVars, tz, call, startDate, endDate, reviews, aggPc, stats, limit, leaderboard, reviewLeaderboard>>

\* one more review record in the result of getAllReviews
AddReview ==
    /\ aggPc = "fetched"
    /\ Len(prs) + Len(reviews) < MaxRecords
    /\ \E r \in ReviewPool : reviews' = Append(reviews, r)
    /\ UNCHANGED <<fetchVars, dashVars, tz, call, startDate, endDate, prs, aggPc, stats, limit, leaderboard, reviewLeaderboard>>

\* init: const stats = this.api.processPRData(prs, startDate, endDate)
ProcessPRData ==
    /\ aggPc = "fetched"
    /\ stats' = processPRData(prs, startDate, endDate, tz)
    /\ aggPc' = "prsProcessed"
    /\ UNCHANGED <<fetchVars, dashVars, tz, call, startDate, endDate, prs, reviews, limit, leaderboard, reviewLeaderboard>>

\* init: this.api.processReviewData(reviews, stats.participants)
ProcessReviewData ==
    /\ aggPc = "prsProcessed"
    /\ stats' = [stats EXCEPT !.participants = processReviewData(reviews, @)]
    /\ aggPc' = "reviewsProcessed"
    /\ UNCHANGED <<fetchVars, dashVars, tz, call, startDate, endDate, prs, reviews, limit, leaderboard, reviewLeaderboard>>

\* init: const issueStats = this.api.processIssueData(issues,
\* stats.repoStats); stats.totalIssues and stats.closedIssues are set from
\* it.  The issues are the result of getAllIssues.
ProcessIssueData ==
    /\ aggPc = "reviewsProcessed"
    /\ LET issueStats == processIssueData(round["issues"].result, stats.repoStats)
       IN  stats' = SetKey(SetKey([stats EXCEPT !.repoStats = issueStats.repoStats],
                                  "totalIssues", issueStats.totalIssues),
                           "closedIssues", issueStats.closedIssues)
    /\ aggPc' = "issuesProcessed"
    /\ UNCHANGED <<fetchVars, dashVars, tz, call, startDate, endDate, prs, reviews, limit, leaderboard, reviewLeaderboard>>

\* the message of showError in the catch block of init
msg_loadFailed ==
    "Failed to load hackathon data. Please check your configuration and try again."

\* init of index.js, "Update UI": updateStats, then renderLeaderboard and
\* renderReviewLeaderBoard with the configured display.maxLeaderboardEntries,
\* then renderChart, which calls new Chart without testing that Chart.js is
\* loaded.  With Chart.js loaded init ends with the dashboard; without it
\* renderChart throws after the counts and the leaderboards are written,
\* and the catch block of init puts the error banner over them.
RenderLeaderboards ==
    /\ aggPc = "issuesProcessed"
    /\ \E maxLeaderboardEntries \in 0..MaxLimit :
          /\ limit' = maxLeaderboardEntries
          /\ leaderboard' = generateLeaderboard(stats.participants, maxLeaderboardEntries)
          /\ reviewLeaderboard' =
                 generateReviewLeaderboard(stats.participants, maxLeaderboardEntries)
    /\ \E chartLoaded \in BOOLEAN :
          view' = IF chartLoaded
                  THEN [state |-> "dashboard", message |-> "",
                        shown |-> <<updateStats(stats, config.repositories)>>]
                  ELSE [showError(msg_loadFailed) EXCEPT
                          !.shown = <<updateStats(stats, config.repositories)>>]
    /\ aggPc' = "rendered"
    /\ UNCHANGED <<fetchVars, config, orgListing, rev, tz, call, startDate, endDate, prs, reviews, stats>>

\* init with resolved repositories, "Update UI": updateStats, then
\* renderLeaderboard and renderReviewLeaderBoard; renderChart returns early
\* when Chart.js is not loaded and is called in a try block of its own, so
\* init goes on to the dashboard
RenderDashboard ==
    /\ aggPc = "issuesProcessed"
    /\ \E maxLeaderboardEntries \in 0..MaxLimit :
          /\ limit' = maxLeaderboardEntries
          /\ leaderboard' = generateLeaderboard(stats.participants, maxLeaderboardEntries)
          /\ reviewLeaderboard' =
                 generateReviewLeaderboard(stats.participants, maxLeaderboardEntries)
    /\ view' = [state |-> "dashboard", message |-> "",
                 shown |-> <<updateStats(stats, repositories)>>]
    /\ aggPc' = "rendered"
    /\ UNCHANGED <<fetchVars, config, orgListing, rev, tz, call, startDate, endDate, prs, reviews, stats>>

AggNext ==
    \/ AddPR
    \/ AddReview
    \/ ProcessPRData
    \/ ProcessReviewData
    \/ ProcessIssueData
    \/ RenderLeaderboards

Init == AggInit
Next == AggNext
Spec == Init /\ [][Next]_vars


(***************************************************************************)
(* Collection runs (specifications CollectSpec and FanOutSpec)             *)
(***************************************************************************)
\* bound: number of getAllPullRequests / getAllIssues calls on one client
MaxCalls == 2
\* bound: number of 5-minute periods the clock runs through
MaxClock == 1
\* bound: number of records older than the fillers in a listing
MaxOlder == 2

\* the window of the collection runs
FetchStart == At(1, 0)
FetchEnd == At(3, 86399)

\* pull requests created at or after the end of the window
prAfterEnd == RawPR(901, carol, title_fix, FetchEnd + 1, NullTime)
prAtEnd    == RawPR(902, bob, title_fix, FetchEnd, NullTime)

\* pull requests created at or before the start of the window
prAtStart        == RawPR(801, alice, title_fix, FetchStart, NullTime)
prOld            == RawPR(802, bob, title_fix, FetchStart - 1, NullTime)
prOldMergedAtEnd == RawPR(803, carol, title_fix, FetchStart - 1, Time(FetchEnd))
prOlderMergedIn  == RawPR(804, alice, title_fix, FetchStart - SecondsPerDay,
                          Time(FetchStart + 3600))
prOlderMergedOut == RawPR(805, bob, title_fix, FetchStart - SecondsPerDay,
                          Time(FetchStart - 3600))

NewerPRs == { <<>>, <<prAfterEnd>>, <<prAtEnd>>, <<prAfterEnd, prAtEnd>> }
OlderPRPool == {prAtStart, prOld, prOldMergedAtEnd, prOlderMergedIn, prOlderMergedOut}

\* issues (and pull requests listed as issues) at the edges of the window
issueAfterEnd == RawIssue(951, carol, title_fix, FetchEnd + 1, NullTime, FALSE)
issueAtEnd    == RawIssue(952, bob, title_fix, FetchEnd, NullTime, FALSE)
issueAtStart  == RawIssue(851, alice, title_fix, FetchStart, NullTime, FALSE)
pullAtStart   == RawIssue(852, bob, title_fix, FetchStart, Time(FetchStart + 60), TRUE)
issueOld      == RawIssue(853, bob, title_fix, FetchStart - 1, NullTime, FALSE)
pullOld       == RawIssue(854, carol, title_fix, FetchStart - 1, NullTime, TRUE)
issueOldClosedAtEnd ==
    RawIssue(855, carol, title_fix, FetchStart - 1, Time(FetchEnd), FALSE)
issueOlderClosedIn ==
    RawIssue(856, alice, title_fix, FetchStart - SecondsPerDay,
             Time(FetchStart + 3600), FALSE)

NewerIssues == { <<>>, <<issueAfterEnd>>, <<issueAtEnd>>, <<issueAfterEnd, issueAtEnd>> }
OlderIssuePool == {issueAtStart, pullAtStart, issueOld, pullOld,
                   issueOldClosedAtEnd, issueOlderClosedIn}

\* the sequences of at most MaxOlder distinct records of the pool, in
\* descending order of creation (the order of the listing)
RECURSIVE SortedSeqs(_, _)
SortedSeqs(pool, n) ==
    IF n = 0 THEN { <<>> }
    ELSE LET shorter == SortedSeqs(pool, n - 1)
         IN  shorter \cup
             { Append(q, x) : q \in { t \in shorter : Len(t) = n - 1 }, x \in pool }

Descending(q) ==
    /\ \A i \in 1..(Len(q) - 1) : q[i].created_at >= q[i + 1].created_at
    /\ \A i, j \in 1..Len(q) : i # j => q[i] # q[j]

OlderSeqs(pool) == { q \in SortedSeqs(pool, MaxOlder) : Descending(q) }

EmptyListing == [newer |-> <<>>, fill |-> 0, older |-> <<>>]

\* listings of one page: every choice of newest and oldest records
ShortListings(newerChoices, olderPool) ==
    { [newer |-> n, fill |-> f, older |-> o] :
        n \in newerChoices, f \in {0, 1}, o \in OlderSeqs(olderPool) }

\* listings of several pages: the first old record just before, at and
\* after a page boundary
PagedListings(olds, olderMergedIn) ==
    { [newer |-> <<>>, fill |-> f, older |-> <<old, olderMergedIn>>] :
        f \in {perPage - 1, perPage, 2 * perPage}, old \in olds }

PullListings ==
    ShortListings(NewerPRs, OlderPRPool) \cup PagedListings({prOld, prOldMergedAtEnd}, prOlderMergedIn)
IssueListings ==
    ShortListings(NewerIssues, OlderIssuePool)
        \cup PagedListings({issueOld, issueOldClosedAtEnd}, issueOlderClosedIn)

\* the listings of the repositories of a multi-repository configuration
ActiveServer ==
    [pulls |-> [newer |-> <<prAtEnd>>, fill |-> 1, older |-> <<prOld>>],
     issues |-> [newer |-> <<issueAtEnd>>, fill |-> 1, older |-> <<issueOld>>]]

SmallServers == { ActiveServer, [pulls |-> EmptyListing, issues |-> EmptyListing] }

\* a fresh client, before the first getAll* call
FreshClient ==
    /\ startDate = FetchStart /\ endDate = FetchEnd /\ tz = UTC
    /\ prs = <<>> /\ reviews = <<>> /\ aggPc = "fetching"
    /\ stats = NoStats /\ limit = 0 /\ call = NoCall /\ leaderboard = <<>> /\ reviewLeaderboard = <<>>
    /\ now = 0
    /\ cache = EmptyObject
    /\ lookups = NoLookups
    /\ coll = [k \in Kinds |-> [i \in 1..Len(repositories) |-> IdleCollector]]
    /\ round = [k \in Kinds |-> IdleRound]
    /\ DashIdle

\* a configuration of one repository, with any listing of one kind
CollectInit ==
    /\ repositories = <<r1>>
    /\ \/ \E d \in PullListings :
             server = [r \in {r1} |-> [pulls |-> d, issues |-> EmptyListing]]
       \/ \E d \in IssueListings \ {EmptyListing} :
             server = [r \in {r1} |-> [pulls |-> EmptyListing, issues |-> d]]
    /\ FreshClient

\* a configuration of three repositories with small listings: the first and
\* the last have records, the middle one has records or none
FanOutInit ==
    /\ repositories = <<r1, r2, r3>>
    /\ \E middle \in SmallServers :
          server = [r \in {r1, r2, r3} |-> IF r = r2 THEN middle ELSE ActiveServer]
    /\ FreshClient

\* getAllPullRequests / getAllIssues is called: every collector runs up to
\* its first await, then Promise.allSettled is awaited.  A call of one kind
\* can be made while a call of the other kind is running, as init does
\* inside Promise.all; the callers modelled here await a call before they
\* make the next call of the same kind.
GetAll(kind) ==
    /\ round[kind].pc # "running"
    /\ round["pulls"].calls + round["issues"].calls < MaxCalls
    /\ round' = [round EXCEPT ![kind] =
                    [pc |-> "running", result |-> <<>>, calls |-> @.calls + 1]]
    /\ coll' = [coll EXCEPT ![kind] =
                  [i \in 1..Len(repositories) |->
                      loopHead(IdleCollector, kind, repositories[i], cache, now)]]
    /\ UNCHANGED <<aggVars, dashVars, repositories, server, lookups, now, cache>>

GetAllPullRequests == GetAll("pulls")

GetAllIssues == GetAll("issues")

\* a collector resumes with the payload makeRequest returned from the cache
CachedPage(kind, i) ==
    /\ coll[kind][i].pc = "cached"
    /\ coll' = [coll EXCEPT ![kind][i] =
                  afterPage(@, @.data, kind, repositories[i], cache, now,
                            startDate, endDate)]
    /\ UNCHANGED <<aggVars, dashVars, repositories, server, lookups, now, cache, round>>

\* the response of a page arrives with a success status: makeRequest stores
\* it in the cache and returns it, and the collector resumes
ResponseOk(kind, i) ==
    /\ coll[kind][i].pc = "awaiting"
    /\ LET c == coll[kind][i]
           repoPath == repositories[i]
           url == listingUrl(kind, repoPath[1], repoPath[2], c.page)
           data == ServerPage(server[repoPath][kind], kind, c.page)
           cache1 == cacheSet(cache, url, data, now)
       IN  /\ cache' = cache1
           /\ coll' = [coll EXCEPT ![kind][i] =
                         afterPage(c, data, kind, repoPath, cache1, now,
                                   startDate, endDate)]
    /\ UNCHANGED <<aggVars, dashVars, repositories, server, lookups, now, round>>

\* the request of a page fails (network error or non-success status):
\* makeRequest throws, the collector's catch block breaks out of the loop
ResponseError(kind, i) ==
    /\ coll[kind][i].pc = "awaiting"
    /\ coll' = [coll EXCEPT ![kind][i] = afterError(@)]
    /\ UNCHANGED <<aggVars, dashVars, repositories, server, lookups, now, cache, round>>

\* a combinator that settles as soon as one collection has failed and
\* abandons the collections still in flight (Promise.all with cancellation)
Settle_onFirstFailure(kind) ==
    /\ round[kind].pc = "running"
    /\ \/ \A i \in 1..Len(repositories) : coll[kind][i].pc = "done"
       \/ \E i \in 1..Len(repositories) : coll[kind][i].failed
    /\ round' = [round EXCEPT ![kind].pc = "done",
                              ![kind].result = combine(coll[kind], Len(repositories))]
    /\ coll' = [coll EXCEPT ![kind] =
                  [i \in 1..Len(repositories) |-> finish(coll[kind][i])]]
    /\ UNCHANGED <<aggVars, dashVars, repositories, server, lookups, now, cache>>

\* Promise.allSettled has settled: the results are combined and returned
Settle(kind) ==
    /\ round[kind].pc = "running"
    /\ \A i \in 1..Len(repositories) : coll[kind][i].pc = "done"
    /\ round' = [round EXCEPT ![kind].pc = "done",
                              ![kind].result = combine(coll[kind], Len(repositories))]
    /\ UNCHANGED <<aggVars, dashVars, repositories, server, lookups, now, cache, coll>>

\* time passes: the clock moves to the last millisecond before a multiple
\* of the cache lifetime, or from there to the multiple, whatever requests
\* are in flight
Tick ==
    /\ now < MaxClock * CacheTTL
    /\ now' = IF now % CacheTTL = CacheTTL - 1 THEN now + 1 ELSE now + CacheTTL - 1
    /\ UNCHANGED <<aggVars, dashVars, repositories, server, lookups, cache, coll, round>>

\* bound: number of calls of fetchRepository, fetchUser and
\* getAllRepositories that the page makes
MaxLookups == 1

\* the URL `${this.baseURL}/repos/${owner}/${repo}` of fetchRepository
repositoryUrl(owner, repo) == <<"repos", owner, repo>>

\* the URL `${this.baseURL}/users/${username}` of fetchUser
userUrl(username) == <<"users", username>>

\* the object GitHub returns for the URL of a repository or of a user
DetailObject(url) ==
    IF url[1] = "repos" THEN [full_name |-> <<url[2], url[3]>>]
    ELSE [login |-> url[2]]

\* makeRequest(url) up to its await, for the call of fetchRepository or
\* fetchUser: the cached payload is returned ("ok") or the request is sent
\* ("awaiting"); bulk is the getAllRepositories call that made the call, 0
\* for a direct call
startRequest(url, bulk) ==
    IF cacheHit(cache, url, now)
    THEN [url |-> url, pc |-> "ok", data |-> cache[url].data, bulk |-> bulk]
    ELSE [url |-> url, pc |-> "awaiting", data |-> EmptyObject, bulk |-> bulk]

\* fetchRepository(owner, repo) is called
FetchRepository(repoPath) ==
    /\ lookups.made < MaxLookups
    /\ lookups' = [lookups EXCEPT !.made = @ + 1, !.calls =
                      Append(@, startRequest(repositoryUrl(repoPath[1], repoPath[2]), 0))]
    /\ UNCHANGED <<aggVars, dashVars, repositories, server, now, cache, coll, round>>

\* fetchUser(username) is called
FetchUser(username) ==
    /\ lookups.made < MaxLookups
    /\ lookups' = [lookups EXCEPT !.made = @ + 1, !.calls =
                      Append(@, startRequest(userUrl(username), 0))]
    /\ UNCHANGED <<aggVars, dashVars, repositories, server, now, cache, coll, round>>

\* getAllRepositories(list) is called: fetchRepository is called for every
\* path of the list, then Promise.allSettled is awaited
GetAllRepositories(list) ==
    /\ lookups.made < MaxLookups
    /\ LET bulk == Len(lookups.bulks) + 1
           first == Len(lookups.calls) + 1
       IN  lookups' =
             [made |-> lookups.made + 1,
              calls |-> lookups.calls \o
                          [i \in 1..Len(list) |->
                              startRequest(repositoryUrl(list[i][1], list[i][2]), bulk)],
              bulks |-> Append(lookups.bulks,
                               [pc |-> "running", first |-> first,
                                last |-> first + Len(list) - 1, result |-> <<>>])]
    /\ UNCHANGED <<aggVars, dashVars, repositories, server, now, cache, coll, round>>

\* the response of fetchRepository or fetchUser arrives with a success
\* status: makeRequest stores it in the cache and returns it
LookupOk(j) ==
    /\ lookups.calls[j].pc = "awaiting"
    /\ LET url == lookups.calls[j].url
       IN  /\ cache' = cacheSet(cache, url, DetailObject(url), now)
           /\ lookups' = [lookups EXCEPT !.calls[j].pc = "ok",
                                         !.calls[j].data = DetailObject(url)]
    /\ UNCHANGED <<aggVars, dashVars, repositories, server, now, coll, round>>

\* the request of fetchRepository or fetchUser fails: makeRequest throws
\* and the call rejects
LookupError(j) ==
    /\ lookups.calls[j].pc = "awaiting"
    /\ lookups' = [lookups EXCEPT !.calls[j].pc = "failed"]
    /\ UNCHANGED <<aggVars, dashVars, repositories, server, now, cache, coll, round>>

\* results.filter(r => r.status === 'fulfilled').map(r => r.value)
fulfilledValues(results) ==
    LET fulfilled == SelectSeq(results, LAMBDA r : r.pc = "ok")
    IN  [i \in 1..Len(fulfilled) |-> fulfilled[i].data]

\* Promise.allSettled of getAllRepositories has settled: the values of the
\* fulfilled calls are returned in the order of the list
RepositoriesSettle(bulk) ==
    /\ lookups.bulks[bulk].pc = "running"
    /\ LET b == lookups.bulks[bulk]
           results == SubSeq(lookups.calls, b.first, b.last)
       IN  /\ \A i \in 1..Len(results) : results[i].pc # "awaiting"
           /\ lookups' = [lookups EXCEPT !.bulks[bulk].pc = "done",
                                         !.bulks[bulk].result = fulfilledValues(results)]
    /\ UNCHANGED <<aggVars, dashVars, repositories, server, now, cache, coll, round>>

\* the calls of fetchRepository, fetchUser and getAllRepositories that a
\* page makes beside init, and their responses
LookupNext ==
    \/ FetchRepository(r1)
    \/ FetchUser(alice)
    \/ GetAllRepositories(<<r1, r2>>)
    \/ \E j \in 1..Len(lookups.calls) : LookupOk(j)
    \/ \E j \in 1..Len(lookups.calls) : LookupError(j)
    \/ \E bulk \in 1..Len(lookups.bulks) : RepositoriesSettle(bulk)

FetchNext ==
    \/ GetAllPullRequests
    \/ GetAllIssues
    \/ \E kind \in Kinds, i \in 1..Len(repositories) : CachedPage(kind, i)
    \/ \E kind \in Kinds, i \in 1..Len(repositories) : ResponseOk(kind, i)
    \/ \E kind \in Kinds, i \in 1..Len(repositories) : ResponseError(kind, i)
    \/ \E kind \in Kinds : Settle(kind)
    \/ Tick

\* one repository, every listing
CollectSpec == CollectInit /\ [][FetchNext]_vars

\* three repositories
FanOutSpec == FanOutInit /\ [][FetchNext]_vars

(***************************************************************************)
(* Properties of the aggregation run (specification Spec)                  *)
(***************************************************************************)
\* the UTC calendar dates from the date of startDate to the date of endDate
WindowDates(start, end) ==
    { toISODate(d * SecondsPerDay) :
        d \in (start \div SecondsPerDay)..(end \div SecondsPerDay) }

\* the records of prs created inside the window on the date d
CreatedOn(d) ==
    { i \in 1..Len(prs) :
        /\ prs[i].created_at >= startDate /\ prs[i].created_at <= endDate
        /\ toISODate(prs[i].created_at) = d }

\* the merged records of prs whose merge date is d
MergedOn(d) ==
    { i \in 1..Len(prs) :
        /\ prs[i].merged_at # NullTime
        /\ toISODate(prs[i].merged_at[1]) = d }

\* C1 (as claimed): for every record set, the empty one included, the
\* dailyActivity returned by processPRData has exactly the UTC calendar
\* dates from the date of window.start to the date of window.end as keys.
C1_DailyActivityCoversWindow ==
    aggPc # "fetched" =>
        DOMAIN stats.dailyActivity = WindowDates(startDate, endDate)

\* C2 (as claimed): after processPRData, every date bucket holds in total
\* the number of records created in the window on that date and in merged
\* the number of merged records whose merge date is that date.
C2_DailyCountsMatchRecords ==
    aggPc # "fetched" =>
        \A d \in DOMAIN stats.dailyActivity :
            /\ stats.dailyActivity[d].total = Cardinality(CreatedOn(d))
            /\ stats.dailyActivity[d].merged = Cardinality(MergedOn(d))

\* is sorted non-increasing by the field f
SortedDesc(board, f) ==
    \A i \in 1..(Len(board) - 1) : board[i][f] >= board[i + 1][f]

\* C6: both leaderboards are sorted non-increasing by their metric, are no
\* longer than the limit, and hold only entries whose metric is > 0.
C6_LeaderboardInvariant ==
    aggPc = "rendered" =>
        /\ Len(leaderboard) <= limit
        /\ Len(reviewLeaderboard) <= limit
        /\ SortedDesc(leaderboard, "mergedCount")
        /\ SortedDesc(reviewLeaderboard, "reviewCount")
        /\ \A i \in 1..Len(leaderboard) : leaderboard[i].mergedCount > 0
        /\ \A i \in 1..Len(reviewLeaderboard) : reviewLeaderboard[i].reviewCount > 0

\* C6 witness: a rendered PR leaderboard on which the sort moved a later
\* rollup to the front, the limit cut off a rollup with merged PRs, and a
\* rollup without merged PRs was filtered out.
C6_Witness ==
    /\ aggPc = "rendered"
    /\ limit = 2
    /\ Len(leaderboard) = 2
    /\ leaderboard[1].mergedCount = 2
    /\ leaderboard[2].mergedCount = 1
    /\ stats.participants[1].mergedCount = 1
    /\ Cardinality({i \in 1..Len(stats.participants) :
                      stats.participants[i].mergedCount > 0}) = 3

\* C7: no contributor rollup is keyed by a login that contains "bot" or
\* "copilot" (case-insensitive), after processPRData and after
\* processReviewData, and neither leaderboard lists such a login.
C7_NoAutomationRollup ==
    /\ \A i \in 1..Len(stats.participants) :
          stats.participants[i].user.username \notin AutomationLogins
    /\ \A i \in 1..Len(leaderboard) : leaderboard[i].username \notin AutomationLogins
    /\ \A i \in 1..Len(reviewLeaderboard) :
          reviewLeaderboard[i].username \notin AutomationLogins

\* C7 witness: the reviews were folded in after the PRs, the input held a
\* merged PR by an automation login and a non-dismissed review by an
\* automation login, and a human rollup was created.
C7_Witness ==
    /\ aggPc = "reviewsProcessed"
    /\ \E i \in 1..Len(prs) :
          prs[i].user.login \in AutomationLogins /\ prs[i].merged_at # NullTime
    /\ \E i \in 1..Len(reviews) :
          reviews[i].user.login \in AutomationLogins /\ reviews[i].state = "APPROVED"
    /\ Len(stats.participants) >= 1

\* C8: totalPRs is the number of records processed and mergedPRs the number
\* of records with a merge timestamp, automation-authored records included.
C8_TotalsCountEveryRecord ==
    aggPc # "fetched" =>
        /\ stats.totalPRs = Len(prs)
        /\ stats.mergedPRs =
              Cardinality({i \in 1..Len(prs) : prs[i].merged_at # NullTime})

\* C8 witness: a processed record set with a merged PR of an automation
\* login and a PR of a human; the automation PR is counted in both totals
\* and only the human has a rollup.
C8_Witness ==
    /\ aggPc = "prsProcessed"
    /\ Len(prs) = 2
    /\ prs[1].user.login = some_bot /\ prs[1].merged_at # NullTime
    /\ prs[2].user.login = bob /\ prs[2].merged_at = NullTime
    /\ stats.totalPRs = 2
    /\ stats.mergedPRs = 1
    /\ Len(stats.participants) = 1

\* the number of the processed pull requests of a login that were merged
\* inside the window
MergedDuring(login) ==
    Cardinality({ i \in 1..Len(prs) :
                    /\ prs[i].user.login = login
                    /\ prs[i].merged_at # NullTime
                    /\ prs[i].merged_at[1] >= startDate
                    /\ prs[i].merged_at[1] <= endDate })

\* C17: no rollup and no entry of the PR leaderboard has a mergedCount
\* larger than the number of the contributor's pull requests merged inside
\* the window: a pull request merged outside the window does not count.
C17_MergedDuringWindow ==
    aggPc # "fetched" =>
        /\ \A i \in 1..Len(stats.participants) :
              stats.participants[i].mergedCount
                  <= MergedDuring(stats.participants[i].user.username)
        /\ \A i \in 1..Len(leaderboard) :
              leaderboard[i].mergedCount <= MergedDuring(leaderboard[i].username)

\* entries with equal f stand on the board in the order of their rollups in
\* the participants Map (the order in which the rollups were created)
TiesInCreationOrder(board, f) ==
    \A i, j \in 1..Len(board) :
        (i < j /\ board[i][f] = board[j][f]) =>
            indexOfUser(stats.participants, board[i].username)
                < indexOfUser(stats.participants, board[j].username)

\* C19: on the PR leaderboard and on the review leaderboard, contributors
\* with equal metric stand in the order in which their rollups were created
\* during aggregation.
C19_StableTieBreak ==
    aggPc = "rendered" =>
        /\ TiesInCreationOrder(leaderboard, "mergedCount")
        /\ TiesInCreationOrder(reviewLeaderboard, "reviewCount")

\* C19 witness: both leaderboards hold two contributors with equal metric;
\* on the review leaderboard the author of the first review stands second,
\* behind a reviewer whose rollup was created earlier, by a pull request
C19_Witness ==
    /\ aggPc = "rendered"
    /\ Len(leaderboard) = 2
    /\ leaderboard[1].mergedCount = leaderboard[2].mergedCount
    /\ Len(reviewLeaderboard) = 2
    /\ reviewLeaderboard[1].reviewCount = reviewLeaderboard[2].reviewCount
    /\ reviews[1].user.login = reviewLeaderboard[2].username

\* the positions of the reviews of a login that are to be folded in: not
\* DISMISSED, not by an automation login
FoldedReviews(login) ==
    { i \in 1..Len(reviews) :
        /\ reviews[i].user.login = login
        /\ reviews[i].state # "DISMISSED"
        /\ login \notin AutomationLogins }

\* the processReviewData step, from the participants before to those after
C22_Step ==
    (aggPc = "prsProcessed" /\ aggPc' = "reviewsProcessed") =>
        LET before == stats.participants
            after  == stats'.participants
        IN  /\ Len(after) >= Len(before)
            \* the rollups that existed keep their place and their PR data
            /\ \A i \in 1..Len(before) :
                  /\ after[i].user = before[i].user
                  /\ after[i].count = before[i].count
                  /\ after[i].mergedCount = before[i].mergedCount
                  /\ after[i].prs = before[i].prs
                  /\ after[i].reviewCount =
                        before[i].reviewCount
                            + Cardinality(FoldedReviews(before[i].user.username))
            \* the new rollups are zero-initialised and belong to reviewers
            /\ \A i \in (Len(before) + 1)..Len(after) :
                  /\ after[i].count = 0 /\ after[i].mergedCount = 0 /\ after[i].prs = <<>>
                  /\ indexOfUser(before, after[i].user.username) = 0
                  /\ after[i].reviewCount =
                        Cardinality(FoldedReviews(after[i].user.username))
                  /\ after[i].reviewCount > 0
            \* reviewCount is the length of the review list, which holds the
            \* folded reviews in their order
            /\ \A i \in 1..Len(after) :
                  /\ after[i].reviewCount = Len(after[i].reviews)
                  /\ \A k \in 1..Len(after[i].reviews) :
                        /\ after[i].reviews[k].user.login = after[i].user.username
                        /\ after[i].reviews[k].state # "DISMISSED"
            \* every review to be folded in has a rollup, once
            /\ \A r \in 1..Len(reviews) :
                  FoldedReviews(reviews[r].user.login) # {} =>
                      Cardinality({ i \in 1..Len(after) :
                          after[i].user.username = reviews[r].user.login }) = 1

\* C22: processReviewData skips the DISMISSED reviews and the reviews by
\* automation logins; every other review is appended to the rollup of its
\* login, created zero-initialised if absent, and counted once, so that
\* reviewCount is the length of the review list and the PR count, the
\* mergedCount and the PR list of every rollup are unchanged.
C22_ReviewFolding == [][C22_Step]_vars

\* C22 witness: the reviews were folded into the rollups of a record set
\* with a DISMISSED review by a contributor with a PR rollup, a review by an
\* automation login, and a review by a login without PRs, whose rollup was
\* created by the fold
C22_Witness ==
    /\ aggPc = "reviewsProcessed"
    /\ \E i \in 1..Len(reviews) :
          /\ reviews[i].state = "DISMISSED"
          /\ \E p \in 1..Len(stats.participants) :
                /\ stats.participants[p].user.username = reviews[i].user.login
                /\ stats.participants[p].count > 0
                /\ stats.participants[p].reviewCount = 0
    /\ \E i \in 1..Len(reviews) :
          reviews[i].user.login \in AutomationLogins /\ reviews[i].state # "DISMISSED"
    /\ \E p \in 1..Len(stats.participants) :
          stats.participants[p].count = 0 /\ stats.participants[p].reviewCount = 1

\* the record is classified as automation: by its login, or by a title
\* that mentions copilot
AutomationPR(pr) ==
    pr.user.login \in AutomationLogins \/ pr.title = title_copilot

\* the processed records of a login that are not classified as automation,
\* in their order
RecordsOf(login) ==
    LET mine(pr) == pr.user.login = login /\ ~AutomationPR(pr)
    IN  SelectSeq(prs, mine)

\* C25: after processPRData every contributor rollup has count equal to the
\* length of its PR list and mergedCount equal to the number of merged
\* records of the list (so mergedCount <= count); the list holds the
\* non-automation records of the rollup's login, in their order; avatar and
\* profile URL are those of the first of them; each login has one rollup;
\* and the counts add up to the number of records not classified as
\* automation.
C25_RollupConsistent ==
    aggPc = "prsProcessed" =>
        LET ps == stats.participants
            humans == { i \in 1..Len(prs) : ~AutomationPR(prs[i]) }
        IN  /\ \A i \in 1..Len(ps) :
                  /\ ps[i].count = Len(ps[i].prs)
                  /\ ps[i].mergedCount =
                        Cardinality({ k \in 1..Len(ps[i].prs) :
                                        ps[i].prs[k].merged_at # NullTime })
                  /\ ps[i].mergedCount <= ps[i].count
                  /\ \A k \in 1..Len(ps[i].prs) :
                        ps[i].prs[k].user.login = ps[i].user.username
                  /\ ps[i].prs = RecordsOf(ps[i].user.username)
                  /\ ps[i].count >= 1
                  /\ ps[i].avatar = RecordsOf(ps[i].user.username)[1].user.avatar_url
                  /\ ps[i].url = RecordsOf(ps[i].user.username)[1].user.html_url
            /\ \A i, j \in 1..Len(ps) :
                  ps[i].user.username = ps[j].user.username => i = j
            /\ \A r \in humans :
                  \E i \in 1..Len(ps) : ps[i].user.username = prs[r].user.login
            /\ Cardinality({ <<i, k>> \in (1..Len(ps)) \X (1..Len(prs)) :
                                k <= ps[i].count }) = Cardinality(humans)

\* C25 witness: a contributor with a merged and an unmerged record, in that
\* order, beside a record of an automation login and a record classified
\* as automation by its title
C25_Witness ==
    /\ aggPc = "prsProcessed"
    /\ Len(prs) = 4
    /\ Len(stats.participants) = 1
    /\ stats.participants[1].count = 2
    /\ stats.participants[1].mergedCount = 1
    /\ stats.participants[1].prs[2].merged_at = NullTime
    /\ stats.participants[1].avatar # stats.participants[1].prs[2].user.avatar_url
    /\ \E i \in 1..4 : prs[i].user.login \in AutomationLogins
    /\ \E i \in 1..4 : prs[i].title = title_copilot

(***************************************************************************)
(* Properties of the collector (specification CollectSpec)                 *)
(***************************************************************************)
\* the complete listing of a repository, newest record first
Listing(repoPath, kind) ==
    LET d == server[repoPath][kind]
    IN  [j \in 1..ListingLen(d) |-> ListingAt(d, kind, j)]

\* the page on which the j-th record of a listing is served
PageOf(j) == ((j - 1) \div perPage) + 1

InWindow(t) == t >= startDate /\ t <= endDate

\* merged_at of a pull request, closed_at of an issue
ResolvedAt(kind, rec) == IF kind = "pulls" THEN rec.merged_at ELSE rec.closed_at

ResolvedInWindow(kind, rec) ==
    /\ ResolvedAt(kind, rec) # NullTime
    /\ InWindow(ResolvedAt(kind, rec)[1])

\* the record is a record of its kind: the issues listing also carries
\* pull requests
OfKind(kind, rec) == kind = "pulls" \/ ~rec.pull_request

\* position of record K, the first record created before the window
\* starts; 0 if the listing has none
FirstOld(kind, L) ==
    LET old(j) == OfKind(kind, L[j]) /\ L[j].created_at < startDate
    IN  IF \E j \in 1..Len(L) : old(j)
        THEN CHOOSE j \in 1..Len(L) : old(j) /\ \A h \in 1..(j - 1) : ~old(h)
        ELSE 0

\* the collector's output contains the record
Returned(c, rec, repoPath) ==
    \E i \in 1..Len(c.all) : c.all[i] = withRepository(rec, repoPath[1], repoPath[2])

\* the collector of the single repository
TheCollector(kind) == coll[kind][1]

\* C3 as stated: when the pull request listing has a first record K created
\* before the window starts, the collector requests no page beyond the page
\* of K, and its output contains neither K nor any record after K.
C3_StopsBeforeFirstOld ==
    LET L == Listing(r1, "pulls")
        K == FirstOld("pulls", L)
        c == TheCollector("pulls")
    IN  K > 0 =>
          /\ c.requests <= PageOf(K)
          /\ \A j \in K..Len(L) : ~Returned(c, L[j], r1)

\* C3, amended: when the pull request listing has a first record K created
\* before the window starts, the collector requests no page beyond the page
\* of K and its output contains no record after K; K itself is in the
\* output of a collector that has examined it exactly when K was merged
\* inside the window.
C3_StopsAtFirstOld ==
    LET L == Listing(r1, "pulls")
        K == FirstOld("pulls", L)
        c == TheCollector("pulls")
    IN  K > 0 =>
          /\ c.requests <= PageOf(K)
          /\ c.page <= PageOf(K)
          /\ \A j \in (K + 1)..Len(L) : ~Returned(c, L[j], r1)
          /\ Returned(c, L[K], r1) =>
                c.scanned >= K /\ ResolvedInWindow("pulls", L[K])
          /\ (c.scanned >= K /\ ResolvedInWindow("pulls", L[K])) =>
                Returned(c, L[K], r1)

\* the collector has stopped on the second page at a record K that was merged
\* inside the window, has returned K and has left out the record after K
C3_Witness ==
    LET L == Listing(r1, "pulls")
        K == FirstOld("pulls", L)
        c == TheCollector("pulls")
    IN  /\ c.pc = "done" /\ ~c.failed
        /\ K > 0 /\ K < Len(L)
        /\ ResolvedInWindow("pulls", L[K])
        /\ Returned(c, L[K], r1)
        /\ PageOf(K) = 2
        /\ c.requests = PageOf(K)

\* C4: when no page request failed and the listing has at most maxPages
\* pages, the finished collector has returned every pull request of the
\* listing that was merged inside the window.
C4_EveryMergedPRReturned ==
    LET L == Listing(r1, "pulls")
        c == TheCollector("pulls")
    IN  (c.pc = "done" /\ ~c.failed /\ Len(L) <= maxPages * perPage) =>
          \A j \in 1..Len(L) :
              ResolvedInWindow("pulls", L[j]) => Returned(c, L[j], r1)

\* C9: a collector of either kind whose page 1 is empty makes one page
\* request and returns an empty sequence.
C9_EmptyFirstPage ==
    \A kind \in Kinds :
        LET c == TheCollector(kind)
        IN  Len(ServerPage(server[r1][kind], kind, 1)) = 0 =>
              /\ c.requests <= 1
              /\ c.all = <<>>
              /\ c.pc = "done" => c.requests = 1

\* both collectors have returned after an empty first page
C9_Witness ==
    \A kind \in Kinds :
        /\ Len(ServerPage(server[r1][kind], kind, 1)) = 0
        /\ TheCollector(kind).pc = "done"
        /\ ~TheCollector(kind).failed
        /\ TheCollector(kind).requests = 1

\* the page of the j-th record of the listing has been delivered to the
\* collector
Delivered(c, j) == c.scanned > 0 /\ PageOf(j) <= PageOf(c.scanned)

\* the four boundary cases for the j-th record of the listing
BoundaryCases(kind, c, L, j) ==
    /\ L[j].created_at = startDate => Returned(c, L[j], r1)
    /\ L[j].created_at = endDate => Returned(c, L[j], r1)
    /\ ResolvedAt(kind, L[j]) = Time(endDate) => Returned(c, L[j], r1)
    /\ (L[j].created_at = endDate + 1 /\ ~ResolvedInWindow(kind, L[j])) =>
          ~Returned(c, L[j], r1)

\* C10: of the records of its kind on the pages delivered to a collector of
\* pull requests or of issues, the one created exactly at the start of the
\* window is in the output, the one created or resolved (merged, closed)
\* exactly at the end of the window is in the output, and the one created
\* one second after the end of the window and not resolved inside it is not.
C10_WindowBoundaries ==
    \A kind \in Kinds :
        LET L == Listing(r1, kind)
            c == TheCollector(kind)
        IN  \A j \in 1..Len(L) :
              (Delivered(c, j) /\ OfKind(kind, L[j])) => BoundaryCases(kind, c, L, j)

\* the boundary cases hold for the records the loop of either collector has
\* examined, which are those up to and including the first record created
\* before the window starts
ExaminedBoundaries ==
    \A kind \in Kinds :
        LET L == Listing(r1, kind)
            c == TheCollector(kind)
        IN  \A j \in 1..Len(L) :
              (j <= c.scanned /\ OfKind(kind, L[j])) => BoundaryCases(kind, c, L, j)

(***************************************************************************)
(* Properties of the fan-out (specification FanOutSpec)                    *)
(***************************************************************************)
\* what the collection of one repository returns from the first `pages`
\* pages of its listing: the relevant records down to record K, with the
\* repository
ExpectedOutput(kind, repoPath, pages) ==
    LET L == Listing(repoPath, kind)
        K == FirstOld(kind, L)
        served == IF Len(L) < pages * perPage THEN Len(L) ELSE pages * perPage
        upto == IF K = 0 \/ K > served THEN served ELSE K
        relevant(rec) ==
            /\ OfKind(kind, rec)
            /\ InWindow(rec.created_at) \/ ResolvedInWindow(kind, rec)
        kept == SelectSeq(SubSeq(L, 1, upto), relevant)
    IN  [i \in 1..Len(kept) |-> withRepository(kept[i], repoPath[1], repoPath[2])]

\* the pages a collector has received: all but the last requested one if
\* that request failed
PagesReceived(c) == IF c.failed THEN c.requests - 1 ELSE maxPages

\* the outputs of the first n repositories in the order of the repository
\* list; a repository whose first request failed has received no page
RECURSIVE ExpectedResult(_, _)
ExpectedResult(kind, n) ==
    IF n = 0 THEN <<>>
    ELSE ExpectedResult(kind, n - 1)
            \o ExpectedOutput(kind, repositories[n], PagesReceived(coll[kind][n]))

\* C5: a fan-out round that has returned has returned, in the order of the
\* repository list, the records of every repository from the pages it has
\* received; a repository whose every fetch failed contributes nothing and
\* the records of the other repositories are complete.
C5_PartialFailureTolerance ==
    \A kind \in Kinds :
        round[kind].pc = "done" =>
            round[kind].result = ExpectedResult(kind, Len(repositories))

\* getAllPullRequests has returned the records of repositories 1 and 3 while
\* the fetch of repository 2, whose listing is not empty, failed
C5_Witness ==
    /\ round["pulls"].pc = "done"
    /\ ~coll["pulls"][1].failed /\ coll["pulls"][2].failed /\ ~coll["pulls"][3].failed
    /\ coll["pulls"][2].requests = 1
    /\ ListingLen(server[r2]["pulls"]) > 0
    /\ Len(round["pulls"].result) = 4
    /\ round["pulls"].result[1].repository = r1
    /\ round["pulls"].result[4].repository = r3

(***************************************************************************)
(* Properties of the fetch client (specification CollectSpec)              *)
(***************************************************************************)
\* the step calls makeRequest for the collector: the collector comes to wait
\* for a payload, be it the cached one or the response of the network
CallsMakeRequest(kind, i) ==
    /\ coll'[kind][i] # coll[kind][i]
    /\ coll'[kind][i].pc \in {"cached", "awaiting"}

\* the URL the collector requests after the step
RequestedUrl(kind, i) ==
    listingUrl(kind, repositories[i][1], repositories[i][2], coll'[kind][i].page)

\* C11: a makeRequest call returns the cached payload, without a network
\* call, if the cache holds an entry for exactly the URL whose age is below
\* five minutes; otherwise (no entry, or an age of five minutes or more) it
\* makes a network call.
C11_Step ==
    \A kind \in Kinds : \A i \in 1..Len(repositories) :
        CallsMakeRequest(kind, i) =>
            LET url == RequestedUrl(kind, i)
                fresh == /\ url \in DOMAIN cache'
                         /\ now' - cache'[url].timestamp < CacheTTL
                c == coll'[kind][i]
            IN  /\ fresh => c.pc = "cached" /\ c.data = cache'[url].data
                /\ ~fresh => c.pc = "awaiting"

C11_CacheFreshness == [][C11_Step]_vars

\* a call has been answered from the cache, whose entry is one millisecond
\* short of five minutes old
C11_Witness ==
    LET c == TheCollector("pulls")
        url == listingUrl("pulls", r1[1], r1[2], c.page)
    IN  /\ c.pc = "cached"
        /\ url \in DOMAIN cache
        /\ cache[url].timestamp = 0
        /\ now = CacheTTL - 1
        /\ Len(c.data) > 0

\* C12: a collector of either kind whose page request failed has returned
\* (it does not reject and has no request in flight), has requested no page
\* after the failed one, and has returned the records accumulated from the
\* pages before it.
C12_FailureKeepsEarlierPages ==
    \A kind \in Kinds :
        LET c == TheCollector(kind)
        IN  c.failed =>
              /\ c.pc = "done"
              /\ c.page = c.requests
              /\ c.all = ExpectedOutput(kind, r1, c.requests - 1)

\* the request of page 3 of the issues listing has failed and the collector
\* has returned the issues of pages 1 and 2
C12_Witness ==
    LET c == TheCollector("issues")
    IN  /\ c.failed
        /\ c.requests = 3
        /\ c.scanned = 2 * perPage
        /\ Len(c.all) > 0

(***************************************************************************)
(* Repeated aggregation (specification RerunSpec)                          *)
(***************************************************************************)
\* bound: number of PR records handed to the repeated processPRData calls
MaxRerunRecords == 2

\* the result of getAllPullRequests is given; processPRData is about to be
\* called on it
RerunInit ==
    /\ repositories = <<r1, r2>>
    /\ FetchIdle
    /\ \E rt \in Runtimes :
          /\ startDate = rt[1] /\ endDate = rt[2] /\ tz = rt[3]
          /\ prs \in SortedSeqs({ pr \in PRPool : relevantPR(pr, rt[1], rt[2]) },
                                MaxRerunRecords)
    /\ reviews = <<>>
    /\ aggPc = "fetched"
    /\ stats = NoStats
    /\ limit = 0
    /\ call = [NoCall EXCEPT !.given = prs]
    /\ leaderboard = <<>>
    /\ reviewLeaderboard = <<>>

\* a call that goes on with the objects the call before it left behind (a
\* stats and a leaderboard object kept on the instance instead of created
\* by the call)
EnterProcessPRData_keepsStats ==
    /\ call.pc = "idle" /\ aggPc \in {"fetched", "prsProcessed"}
    /\ call' = [call EXCEPT !.pc = "forEach", !.i = 1]
    /\ UNCHANGED <<fetchVars, dashVars, tz, startDate, endDate, prs, reviews, aggPc,
                   stats, limit, leaderboard, reviewLeaderboard>>

\* processPRData is entered, for the first or for the second time, with the
\* same records and window: the call creates its stats object and its
\* leaderboard object and copies the two dates
EnterProcessPRData ==
    /\ call.pc = "idle" /\ aggPc \in {"fetched", "prsProcessed"}
    /\ call' = [call EXCEPT !.pc = "forEach", !.i = 1, !.acc = newStats]
    /\ UNCHANGED <<fetchVars, dashVars, tz, startDate, endDate, prs, reviews, aggPc,
                   stats, limit, leaderboard, reviewLeaderboard>>

\* one run of the callback of prs.forEach: it writes to the objects of the
\* call and to its own copy of the start date, and only reads the record
ForEachPR ==
    /\ call.pc = "forEach" /\ call.i <= Len(prs)
    /\ call' = [call EXCEPT !.i = @ + 1,
                            !.acc = processOnePR(@, prs[call.i], startDate, endDate, tz)]
    /\ UNCHANGED <<fetchVars, dashVars, tz, startDate, endDate, prs, reviews, aggPc,
                   stats, limit, leaderboard, reviewLeaderboard>>

\* forEach is over: the rollups are put into the participants Map and the
\* stats object is returned
ReturnStats ==
    /\ call.pc = "forEach" /\ call.i > Len(prs)
    /\ stats' = returnStats(prs, call.acc)
    /\ call' = [call EXCEPT !.pc = "idle",
                            !.first = IF aggPc = "fetched" THEN stats' ELSE @]
    /\ aggPc' = IF aggPc = "fetched" THEN "prsProcessed" ELSE "prsProcessedAgain"
    /\ UNCHANGED <<fetchVars, dashVars, tz, startDate, endDate, prs, reviews, limit,
                   leaderboard, reviewLeaderboard>>

RerunNext ==
    \/ EnterProcessPRData
    \/ ForEachPR
    \/ ReturnStats

\* two calls of processPRData in a row, each followed record by record
RerunSpec == RerunInit /\ [][RerunNext]_vars

\* C13: the object returned by the second processPRData call on the same
\* records and window has the totalPRs, mergedPRs, dailyActivity, repoStats
\* and contributor rollups of the object the first call returned, and the
\* records are at every point of the two calls as they were handed to the
\* first call.
C13_Idempotent ==
    /\ prs = call.given
    /\ aggPc = "prsProcessedAgain" =>
          /\ stats.totalPRs = call.first.totalPRs
          /\ stats.mergedPRs = call.first.mergedPRs
          /\ stats.dailyActivity = call.first.dailyActivity
          /\ stats.repoStats = call.first.repoStats
          /\ stats.participants = call.first.participants

\* a call followed record by record returns what processPRData returns
StepwiseIsProcessPRData ==
    (call.pc = "idle" /\ aggPc \in {"prsProcessed", "prsProcessedAgain"}) =>
        stats = processPRData(prs, startDate, endDate, tz)

\* processPRData has been called twice on two records that one contributor
\* authored, one of them merged, and the second call has returned
C13_Witness ==
    /\ aggPc = "prsProcessedAgain" /\ call.pc = "idle"
    /\ Len(prs) = 2
    /\ call.first.mergedPRs = 1
    /\ stats.totalPRs = 2
    /\ stats.mergedPRs = 1
    /\ Len(stats.participants) = 1
    /\ stats.participants[1].count = 2

(***************************************************************************)
(* The live dashboard: HackathonDashboard.init (specification InitSpec)    *)
(***************************************************************************)
\* the list without the later occurrences of an identifier
RECURSIVE Dedup(_)
Dedup(list) ==
    IF list = <<>> THEN <<>>
    ELSE LET front == Dedup(SubSeq(list, 1, Len(list) - 1))
             x == list[Len(list)]
         IN  IF \E i \in 1..Len(front) : front[i] = x THEN front ELSE Append(front, x)

\* the outcome of the organization listing fetch: a failure, or the
\* organization's repositories
OrgFailed == [status |-> "failed", repos |-> <<>>]
OrgListing(repos) == [status |-> "ok", repos |-> repos]

\* a resolver without the fallback: a failed organization listing gives no
\* repositories at all
resolveRepositories_noFallback(github, orgOutcome) ==
    IF github.organization = NoOrganization THEN Dedup(github.repositories)
    ELSE IF orgOutcome.status # "ok" THEN <<>>
    ELSE Dedup(github.repositories \o orgOutcome.repos)

\* a resolver that joins the two lists as they are
resolveRepositories_concat(github, orgOutcome) ==
    IF github.organization = NoOrganization \/ orgOutcome.status # "ok"
    THEN github.repositories
    ELSE github.repositories \o orgOutcome.repos

\* GitHubAPI.resolveRepositories(config.github): the explicit repositories
\* and the repositories of the organization, each identifier once; the
\* explicit list alone if no organization is configured or its listing
\* cannot be fetched
resolveRepositories(github, orgOutcome) ==
    IF github.organization = NoOrganization \/ orgOutcome.status # "ok"
    THEN Dedup(github.repositories)
    ELSE Dedup(github.repositories \o orgOutcome.repos)

\* the message of showError in the catch block of the resolution: the
\* message of the error between a fixed prefix and a fixed suffix
repoErrorMessage(message) ==
    <<"Unable to load repository list: ", message,
      ". Please check your organization name or add explicit repositories to the configuration.">>

msg_noRepositories ==
    repoErrorMessage("No repositories could be resolved. Please check your configuration.")

\* the messages of the errors with which resolveRepositories can reject: the
\* error makeRequest throws for a response that is not ok (`GitHub API
\* error: ${response.status}`), the error of a request the network did not
\* carry, and the text init itself throws for an empty list
ResolverErrors ==
    { "GitHub API error: 403", "GitHub API error: 404", "Failed to fetch",
      "No repositories could be resolved. Please check your configuration." }

\* resolveRepositories rejected with an error of this message
ResolverRejected(message) == [status |-> "rejected", repos |-> <<>>, message |-> message]

\* a review of the reviews listing of a pull request
RawReview(id, login, state, submitted) ==
    [id |-> id, user |-> User(login, id), state |-> state,
     html_url |-> <<"review", id>>, submitted_at |-> submitted]

\* the pull requests and reviews of the dashboard runs
prMergedInWindow == RawPR(11, alice, title_fix, FetchStart + 60, Time(FetchStart + 3600))
prOpenInWindow   == RawPR(12, bob, title_fix, FetchStart + 30, NullTime)
prSecondRepo     == RawPR(21, alice, title_fix, FetchStart + 90, Time(FetchEnd))
reviewInWindow   == RawReview(31, carol, "APPROVED", FetchStart + 7200)
reviewAfterEnd   == RawReview(32, bob, "COMMENTED", FetchEnd + 1)

\* the remote data of the dashboard runs: repository A has two pull
\* requests in the window, one of them merged and reviewed; repository B has
\* one merged pull request; repository C has nothing
InitServer ==
    [r \in {r1, r2, r3} |->
        IF r = r1
        THEN [pulls |-> [newer |-> <<>>, fill |-> 0,
                         older |-> <<prMergedInWindow, prOpenInWindow, prOld>>],
              issues |-> [newer |-> <<issueAtEnd>>, fill |-> 0, older |-> <<issueOld>>],
              reviews |-> [n \in {11, 12} |->
                              IF n = 11 THEN <<reviewInWindow, reviewAfterEnd>> ELSE <<>>]]
        ELSE IF r = r2
        THEN [pulls |-> [newer |-> <<>>, fill |-> 0, older |-> <<prSecondRepo, prOld>>],
              issues |-> EmptyListing,
              reviews |-> [n \in {21} |-> <<>>]]
        ELSE [pulls |-> EmptyListing, issues |-> EmptyListing,
              reviews |-> [n \in {} |-> <<>>]]]

\* the configurations config.github of the dashboard runs: at most two
\* repositories are resolved
Configs ==
    { [organization |-> o, repositories |-> e] :
        o \in {NoOrganization, "org"}, e \in { <<>>, <<r1>>, <<r2>> } }

\* the repositories of the organization "org"
OrgRepositories == <<r1, r2>>

\* the answers the organization's listing can get: none is requested without
\* an organization; otherwise the request fails, or lists the organization's
\* repositories, or lists none
OrgOutcomes(github) ==
    IF github.organization = NoOrganization THEN { NotRequested }
    ELSE { OrgFailed, OrgListing(OrgRepositories), OrgListing(<<>>) }

\* the URL `${baseURL}/repos/${owner}/${repo}/pulls/${prNumber}/reviews`
reviewsUrl(owner, repo, prNumber) == <<"reviews", owner, repo, prNumber, 1>>

\* fetchReviews up to the await inside makeRequest: the cached payload, or a
\* request sent to the network
requestReviews(repoPath, pr, theCache, time) ==
    LET url == reviewsUrl(repoPath[1], repoPath[2], pr.number)
    IN  IF cacheHit(theCache, url, time)
        THEN [pc |-> "ok", data |-> theCache[url].data]
        ELSE [pc |-> "awaiting", data |-> <<>>]

\* the number of requests of the sequence that went to the network
Awaited(replies) == Cardinality({ j \in 1..Len(replies) : replies[j].pc = "awaiting" })

\* getAllReviews after a step of the pull request collector of the current
\* repository: once the collector has returned, fetchReviews is called for
\* each of its pull requests
enterReviews(rv, c, theCache, time) ==
    LET rv1 == [rv EXCEPT !.c = c,
                          !.fetches = @ + (IF c.pc = "awaiting" THEN 1 ELSE 0),
                          !.failures = @ + (IF c.failed THEN 1 ELSE 0)]
    IN  IF c.pc # "done" THEN rv1
        ELSE LET replies == [j \in 1..Len(c.all) |->
                                requestReviews(repositories[rv.i], c.all[j], theCache, time)]
             IN  [rv1 EXCEPT !.pc = "reviews", !.replies = replies,
                             !.fetches = @ + Awaited(replies)]

\* a review stage whose re-collection does not consult the cache
\* (makeRequest(url, false))
collectFor_noCache(rv, i, repoPath, theCache, time) ==
    LET c == [IdleCollector EXCEPT !.pc = "awaiting", !.requests = 1]
    IN  [rv EXCEPT !.pc = "collecting", !.i = i, !.c = c, !.replies = <<>>,
                   !.fetches = @ + 1]

\* getAllReviews starts (or goes on) with the repository at position i
collectFor(rv, i, repoPath, theCache, time) ==
    LET c == loopHead(IdleCollector, "pulls", repoPath, theCache, time)
    IN  [rv EXCEPT !.pc = "collecting", !.i = i, !.c = c, !.replies = <<>>,
                   !.fetches = @ + (IF c.pc = "awaiting" THEN 1 ELSE 0)]

\* the reviews of one pull request that getAllReviews pushes: those
\* submitted inside the window, with the repository and the pull request
pushedReviews(reviewList, pr, repoPath, start, end) ==
    LET inWindow(review) == review.submitted_at >= start /\ review.submitted_at <= end
        kept == SelectSeq(reviewList, inWindow)
    IN  [k \in 1..Len(kept) |->
            SetKey(SetKey(SetKey(kept[k], "repository", repoPath),
                          "pull_request_title", pr.title),
                   "pull_request_url", <<"pull", pr.number>>)]

\* reviewResults.forEach: the reviews of the pull requests in their order
RECURSIVE collectReviews(_, _, _, _, _, _)
collectReviews(replies, pulls, n, repoPath, start, end) ==
    IF n = 0 THEN <<>>
    ELSE collectReviews(replies, pulls, n - 1, repoPath, start, end)
            \o pushedReviews(replies[n].data, pulls[n], repoPath, start, end)

\* the page is about to call init
AboutToInit(configs) ==
    /\ config \in configs
    /\ server = InitServer
    /\ repositories = <<>>
    /\ startDate = FetchStart /\ endDate = FetchEnd /\ tz = UTC
    /\ now = 0
    /\ cache = EmptyObject
    /\ lookups = NoLookups
    /\ coll = [k \in Kinds |-> <<>>]
    /\ round = [k \in Kinds |-> IdleRound]
    /\ orgListing = NotRequested
    /\ rev = IdleReviews
    /\ view = LoadingView
    /\ prs = <<>> /\ reviews = <<>> /\ aggPc = "resolving"
    /\ stats = NoStats /\ limit = 0 /\ call = NoCall /\ leaderboard = <<>> /\ reviewLeaderboard = <<>>

\* resolveRepositories has returned a list: an empty list is an error; with
\* repositories, the three stages of Promise.all are started, each running
\* up to its first await
Resolved ==
    /\ aggPc = "resolving"
    /\ \E orgOutcome \in OrgOutcomes(config) :
          LET resolved == resolveRepositories(config, orgOutcome)
          IN  /\ orgListing' = orgOutcome
              /\ IF Len(resolved) = 0
                 THEN /\ view' = showError(msg_noRepositories)
                      /\ aggPc' = "failed"
                      /\ UNCHANGED <<repositories, coll, round, rev>>
                 ELSE /\ repositories' = resolved
                      /\ round' = [k \in Kinds |->
                                     [pc |-> "running", result |-> <<>>, calls |-> 1]]
                      /\ coll' = [k \in Kinds |->
                                    [i \in 1..Len(resolved) |->
                                        loopHead(IdleCollector, k, resolved[i], cache, now)]]
                      /\ rev' = collectFor(IdleReviews, 1, resolved[1], cache, now)
                      /\ aggPc' = "fetching"
                      /\ UNCHANGED view
    /\ UNCHANGED <<config, server, lookups, now, cache, tz, call, startDate, endDate, prs, reviews,
                   stats, limit, leaderboard, reviewLeaderboard>>

\* resolveRepositories has rejected: the catch block shows the message of
\* the error, whatever it is, and init returns
ResolverThrew ==
    /\ aggPc = "resolving"
    /\ \E message \in ResolverErrors :
          /\ orgListing' = ResolverRejected(message)
          /\ view' = showError(repoErrorMessage(message))
    /\ aggPc' = "failed"
    /\ UNCHANGED <<fetchVars, config, rev, tz, call, startDate, endDate, prs, reviews,
                   stats, limit, leaderboard, reviewLeaderboard>>

\* getAllReviews: the pull request collector of the current repository
\* resumes with a cached page
RevCachedPage ==
    /\ rev.pc = "collecting" /\ rev.c.pc = "cached"
    /\ LET c == afterPage(rev.c, rev.c.data, "pulls", repositories[rev.i], cache, now,
                          startDate, endDate)
       IN  rev' = enterReviews(rev, c, cache, now)
    /\ UNCHANGED <<aggVars, fetchVars, config, orgListing, view>>

\* getAllReviews: the response of a page of pull requests arrives
RevResponseOk ==
    /\ rev.pc = "collecting" /\ rev.c.pc = "awaiting"
    /\ LET repoPath == repositories[rev.i]
           url == listingUrl("pulls", repoPath[1], repoPath[2], rev.c.page)
           data == ServerPage(server[repoPath]["pulls"], "pulls", rev.c.page)
           cache1 == cacheSet(cache, url, data, now)
           c == afterPage(rev.c, data, "pulls", repoPath, cache1, now, startDate, endDate)
       IN  /\ cache' = cache1
           /\ rev' = enterReviews(rev, c, cache1, now)
    /\ UNCHANGED <<aggVars, repositories, server, lookups, now, coll, round, config, orgListing, view>>

\* getAllReviews: the request of a page of pull requests fails
RevResponseError ==
    /\ rev.pc = "collecting" /\ rev.c.pc = "awaiting"
    /\ rev' = enterReviews(rev, afterError(rev.c), cache, now)
    /\ UNCHANGED <<aggVars, fetchVars, config, orgListing, view>>

\* fetchReviews: the reviews of a pull request arrive
ReviewsOk(j) ==
    /\ rev.pc = "reviews" /\ rev.replies[j].pc = "awaiting"
    /\ LET repoPath == repositories[rev.i]
           number == rev.c.all[j].number
           data == server[repoPath]["reviews"][number]
       IN  /\ cache' = cacheSet(cache, reviewsUrl(repoPath[1], repoPath[2], number),
                                data, now)
           /\ rev' = [rev EXCEPT !.replies[j] = [pc |-> "ok", data |-> data]]
    /\ UNCHANGED <<aggVars, repositories, server, lookups, now, coll, round, config, orgListing, view>>

\* fetchReviews: the request fails, the catch block returns []
ReviewsError(j) ==
    /\ rev.pc = "reviews" /\ rev.replies[j].pc = "awaiting"
    /\ rev' = [rev EXCEPT !.replies[j] = [pc |-> "failed", data |-> <<>>],
                          !.failures = @ + 1]
    /\ UNCHANGED <<aggVars, fetchVars, config, orgListing, view>>

\* getAllReviews after Promise.allSettled(reviewPromises): the reviews are
\* pushed and the loop goes on with the next repository, or returns
RevSettle ==
    /\ rev.pc = "reviews"
    /\ \A j \in 1..Len(rev.replies) : rev.replies[j].pc # "awaiting"
    /\ LET pushed == collectReviews(rev.replies, rev.c.all, Len(rev.replies),
                                    repositories[rev.i], startDate, endDate)
           rv == [rev EXCEPT !.all = @ \o pushed]
       IN  rev' = IF rev.i < Len(repositories)
                  THEN collectFor(rv, rev.i + 1, repositories[rev.i + 1], cache, now)
                  ELSE [rv EXCEPT !.pc = "done", !.replies = <<>>]
    /\ UNCHANGED <<aggVars, fetchVars, config, orgListing, view>>

\* Promise.all has resolved: const [prs, issues, reviews]
Fetched ==
    /\ aggPc = "fetching"
    /\ \A k \in Kinds : round[k].pc = "done"
    /\ rev.pc = "done"
    /\ prs' = round["pulls"].result
    /\ reviews' = rev.all
    /\ aggPc' = "fetched"
    /\ UNCHANGED <<fetchVars, dashVars, tz, call, startDate, endDate, stats, limit,
                   leaderboard, reviewLeaderboard>>

InitInit == AboutToInit(Configs)

InitNext ==
    \/ Resolved
    \/ ResolverThrew
    \/ \E kind \in Kinds, i \in 1..Len(repositories) : ResponseOk(kind, i)
    \/ \E kind \in Kinds, i \in 1..Len(repositories) : ResponseError(kind, i)
    \/ \E kind \in Kinds : Settle(kind)
    \/ RevCachedPage
    \/ RevResponseOk
    \/ RevResponseError
    \/ \E j \in 1..Len(rev.replies) : ReviewsOk(j)
    \/ \E j \in 1..Len(rev.replies) : ReviewsError(j)
    \/ RevSettle
    \/ Fetched
    \/ ProcessPRData
    \/ ProcessReviewData
    \/ ProcessIssueData
    \/ RenderDashboard

\* init over every configuration, each run within one reading of the clock;
\* the runs of init during which the clock moves are those of
\* SharedCacheSpec
InitSpec == InitInit /\ [][InitNext]_vars

(***************************************************************************)
(* Repository resolution (specification ResolveSpec)                       *)
(***************************************************************************)
\* bound: number of explicitly configured repositories
MaxExplicit == 3

\* every configuration of at most MaxExplicit explicit repositories, in any
\* order and with repetitions, with and without an organization
AllConfigs ==
    { [organization |-> o, repositories |-> e] :
        o \in {NoOrganization, "org"}, e \in SortedSeqs({r1, r2, r3}, MaxExplicit) }

ResolveInit == AboutToInit(AllConfigs)

ResolveNext ==
    \/ Resolved
    \/ ResolverThrew

\* init up to the start of the fetch stages
ResolveSpec == ResolveInit /\ [][ResolveNext]_vars

(***************************************************************************)
(* Properties of the dashboard runs                                        *)
(***************************************************************************)
\* init has returned
InitEnded == aggPc \in {"failed", "rendered"}

\* the three stages were started and every request any of them sent to the
\* network failed
EveryFetchFailed ==
    /\ Len(repositories) > 0
    /\ \A k \in Kinds : \A i \in 1..Len(repositories) :
          coll[k][i].failed /\ coll[k][i].requests = 1
    /\ rev.pc = "done" /\ rev.fetches > 0 /\ rev.failures = rev.fetches

\* C14: when every page fetch of pull requests, issues and reviews has
\* failed, init ends in the error state and not in a rendered dashboard of
\* zero counts; when only some fetches have failed, init does not end in the
\* error state.
C14_TotalFailureIsError ==
    (InitEnded /\ Len(repositories) > 0) =>
        (view.state = "error") = EveryFetchFailed

\* the elements of a list
Elements(list) == { list[i] : i \in 1..Len(list) }

\* no pull request, issue or review fetch has been issued
NoFetchIssued ==
    /\ repositories = <<>>
    /\ \A k \in Kinds : coll[k] = <<>> /\ round[k] = IdleRound
    /\ rev = IdleReviews
    /\ cache = EmptyObject
    /\ lookups = NoLookups

\* the resolver returned a list without a repository
ResolvedNothing ==
    /\ orgListing.status # "rejected"
    /\ Elements(config.repositories) \cup Elements(orgListing.repos) = {}

\* if the organization's listing failed and repositories are configured
\* explicitly, the run goes on with exactly the explicit repositories
FallsBackToExplicit ==
    (orgListing.status = "failed" /\ config.repositories # <<>>) =>
        /\ view.state # "error" /\ aggPc # "failed"
        /\ Elements(repositories) = Elements(config.repositories)

\* C15 as stated: once the resolution is over, a failed organization listing
\* leaves the run with exactly the explicit repositories; the run is in the
\* error state exactly when the resolved list is empty or the resolver
\* threw; and in the error state the page shows the 'No repositories could
\* be resolved' message and no pull request, issue or review fetch was
\* issued.
C15_NoRepositoriesError ==
    aggPc # "resolving" =>
        /\ FallsBackToExplicit
        /\ (view.state = "error") = (aggPc = "failed")
        /\ (view.state = "error") = (ResolvedNothing \/ orgListing.status = "rejected")
        /\ view.state = "error" =>
              /\ view.message = msg_noRepositories
              /\ NoFetchIssued

\* C15 (amended): once the resolution is over, a failed organization
\* listing leaves the run with exactly the explicit repositories; the run is
\* in the error state exactly when the resolved list is empty or the
\* resolver threw; in the error state no pull request, issue or review fetch
\* was issued and the page shows 'Unable to load repository list: ' followed
\* by the message of the error and the fixed advice, the message being 'No
\* repositories could be resolved. Please check your configuration.' for an
\* empty list and the message of the resolver's error when it threw.
C15_FallbackToExplicit ==
    aggPc # "resolving" =>
        /\ FallsBackToExplicit
        /\ (view.state = "error") = (aggPc = "failed")
        /\ (view.state = "error") = (ResolvedNothing \/ orgListing.status = "rejected")
        /\ ResolvedNothing => view.message = msg_noRepositories
        /\ orgListing.status = "rejected" =>
              view.message = repoErrorMessage(orgListing.message)
        /\ view.state = "error" => NoFetchIssued

\* the organization's listing failed and the run finished with the explicit
\* repository
C15_Witness ==
    /\ orgListing = OrgFailed
    /\ config.repositories = <<r2>>
    /\ repositories = <<r2>>
    /\ aggPc = "rendered"
    /\ view.state = "dashboard"

\* C16: the resolved repository list holds exactly the explicitly configured
\* repositories and the repositories listed for the organization, and each
\* identifier once.
C16_UnionWithoutDuplicates ==
    aggPc = "fetching" =>
        /\ Elements(repositories) =
              Elements(config.repositories) \cup Elements(orgListing.repos)
        /\ \A i, j \in 1..Len(repositories) :
              repositories[i] = repositories[j] => i = j

\* the organization lists A and B, the configuration lists B and C, and the
\* resolved list holds A, B and C, three entries
C16_Witness ==
    /\ aggPc = "fetching"
    /\ orgListing = OrgListing(<<r1, r2>>)
    /\ config.repositories = <<r2, r3>>
    /\ Elements(repositories) = {r1, r2, r3}
    /\ Len(repositories) = 3

\* the non-automation logins with a merged pull request among the processed
\* pull requests
MergedContributors ==
    { prs[i].user.login : i \in { k \in 1..Len(prs) :
                                    /\ prs[k].merged_at # NullTime
                                    /\ prs[k].user.login \notin AutomationLogins } }

\* C18: the Participants statistic of the rendered dashboard is the number
\* of unique non-automation contributors with at least one merged pull
\* request; a contributor with only unmerged pull requests or only reviews
\* is not counted.
C18_ParticipantsHaveMergedPR ==
    view.state = "dashboard" =>
        view.shown[1].participantCount = Cardinality(MergedContributors)

(***************************************************************************)
(* Further properties of the collector (specification CollectSpec)         *)
(***************************************************************************)
\* C20: no record that fetchIssues has collected, and no record that
\* getAllIssues returns, has a pull_request field, whatever the listing
\* holds and whatever the record's created-at and closed-at are.
C20_NoPullRequestAmongIssues ==
    /\ \A i \in 1..Len(coll["issues"]) :
          \A k \in 1..Len(coll["issues"][i].all) : ~coll["issues"][i].all[k].pull_request
    /\ \A k \in 1..Len(round["issues"].result) : ~round["issues"].result[k].pull_request

\* a finished fetchIssues call whose loop went over a record with a
\* pull_request field that was created and closed inside the window, and
\* that has returned an issue
C20_Witness ==
    /\ round["issues"].pc = "done"
    /\ coll["issues"][1].pc = "done"
    /\ \E k \in 1..coll["issues"][1].scanned :
          /\ k <= Len(Listing(r1, "issues"))
          /\ Listing(r1, "issues")[k] = pullAtStart
    /\ InWindow(pullAtStart.created_at)
    /\ Len(round["issues"].result) > 0

(***************************************************************************)
(* Long listings (specification PageCapSpec)                               *)
(***************************************************************************)
\* the numbers of records created inside the window in the long listings:
\* one less than maxPages full pages, exactly maxPages full pages, and more
LongFills == { maxPages * perPage - 1, maxPages * perPage,
               maxPages * perPage + (perPage \div 2) }

\* one repository whose listings hold a long run of records created inside
\* the window, followed by one old record
PageCapInit ==
    /\ repositories = <<r1>>
    /\ \E n \in LongFills :
          server = [r \in {r1} |->
                      [pulls |-> [newer |-> <<>>, fill |-> n, older |-> <<prOld>>],
                       issues |-> [newer |-> <<>>, fill |-> n, older |-> <<issueOld>>]]]
    /\ FreshClient

\* the first getAll* call of the client
FirstGetAll(kind) ==
    /\ \A k \in Kinds : round[k].calls = 0
    /\ GetAll(kind)

PageCapNext ==
    \/ \E kind \in Kinds : FirstGetAll(kind)
    \/ \E kind \in Kinds : ResponseOk(kind, 1)
    \/ \E kind \in Kinds : ResponseError(kind, 1)
    \/ \E kind \in Kinds : Settle(kind)

PageCapSpec == PageCapInit /\ [][PageCapNext]_vars

\* a step of PageCapNext is possible: a first call can be made, a collector
\* waits for a response, or a settled Promise.allSettled waits to resume
PageCapBusy ==
    \/ \A k \in Kinds : round[k].calls = 0
    \/ \E k \in Kinds : coll[k][1].pc = "awaiting"
    \/ \E k \in Kinds : round[k].pc = "running" /\ coll[k][1].pc = "done"

\* every response arrives, as a success or as a failure, and a settled
\* Promise.allSettled resumes its caller: weak fairness of PageCapNext,
\* WF_vars(PageCapNext), with ENABLED <<PageCapNext>>_vars written out as
\* PageCapBusy
PageCapLiveSpec ==
    PageCapSpec /\ ([]<>(~PageCapBusy) \/ []<><<PageCapNext>>_vars)

\* a step of the collector of a kind: a page is requested only by a
\* collector that is not waiting for a response, its number is one more than
\* the number of pages requested before, and every record of the pages
\* before has been processed
C21_Step ==
    \A k \in Kinds :
        LET c == coll[k][1]
            d == coll'[k][1]
        IN  /\ d.requests \in {c.requests, c.requests + 1}
            /\ d.requests = c.requests + 1 =>
                  /\ d.pc = "awaiting"
                  /\ d.page = c.requests + 1
                  /\ d.scanned = c.requests * perPage
                  /\ c.requests > 0 => c.pc = "awaiting"

\* C21: the collector of one repository requests page 1, 2, 3, ... in
\* sequence, each page only after the page before has been received and
\* processed; it never issues more than maxPages requests; and when every
\* response arrives the collection ends.
C21_SequentialBoundedPages ==
    /\ [][C21_Step]_vars
    /\ [](\A k \in Kinds : /\ coll[k][1].requests <= maxPages
                           /\ coll[k][1].pc = "awaiting" =>
                                 coll[k][1].page = coll[k][1].requests)
    /\ \A k \in Kinds : (round[k].pc = "running") ~> (round[k].pc = "done")

\* a collection over a listing of more than maxPages pages has ended after
\* maxPages successful requests with maxPages * perPage records
C21_Witness ==
    /\ ListingLen(server[r1]["pulls"]) > maxPages * perPage
    /\ round["pulls"].pc = "done"
    /\ coll["pulls"][1].requests = maxPages
    /\ ~coll["pulls"][1].failed
    /\ Len(round["pulls"].result) = maxPages * perPage

(***************************************************************************)
(* Issue folding (specification IssueFoldSpec)                             *)
(***************************************************************************)
\* bound: number of PR records and number of issue records of a run
MaxFoldRecords == 2

\* an issue as getAllIssues returns it
Issue(number, login, created, closed, repoPath) ==
    withRepository(RawIssue(number, login, title_fix, created, closed, FALSE),
                   repoPath[1], repoPath[2])

\* the issues the runs draw from: an open and a closed issue of a repository
\* with pull requests, a closed issue of another one, and an open issue of a
\* repository without pull requests
IssuePool ==
    { Issue(901, alice, At(1, 3600), NullTime, r1),
      Issue(902, bob, At(2, 3600), Time(At(2, 7200)), r1),
      Issue(903, carol, At(2, 0), Time(At(3, 0)), r2),
      Issue(904, alice, At(3, 0), NullTime, r3) }

\* the results of getAllPullRequests and getAllIssues are given;
\* processPRData is about to be called
IssueFoldInit ==
    /\ repositories = <<r1, r2, r3>>
    /\ server = EmptyObject
    /\ now = 0
    /\ cache = EmptyObject
    /\ lookups = NoLookups
    /\ coll = [k \in Kinds |-> <<>>]
    /\ \E issues \in SortedSeqs(IssuePool, MaxFoldRecords) :
          round = [k \in Kinds |->
                     IF k = "issues" THEN [pc |-> "done", result |-> issues, calls |-> 1]
                     ELSE IdleRound]
    /\ DashIdle
    /\ \E w \in Windows :
          /\ startDate = w[1] /\ endDate = w[2] /\ tz = UTC
          /\ prs \in SortedSeqs({ pr \in PRPool : relevantPR(pr, w[1], w[2]) },
                                MaxFoldRecords)
    /\ reviews = <<>>
    /\ aggPc = "fetched"
    /\ stats = NoStats
    /\ limit = 0 /\ call = NoCall
    /\ leaderboard = <<>>
    /\ reviewLeaderboard = <<>>

IssueFoldNext ==
    \/ ProcessPRData
    \/ ProcessReviewData
    \/ ProcessIssueData

IssueFoldSpec == IssueFoldInit /\ [][IssueFoldNext]_vars

\* the number of records of a sequence that belong to a repository and, if
\* resolvedOnly, are merged (have merged_at) or closed (state "closed")
CountOf(records, repo, resolvedOnly) ==
    Cardinality({ i \in 1..Len(records) :
                    /\ records[i].repository = repo
                    /\ resolvedOnly =>
                          IF "merged_at" \in DOMAIN records[i]
                          THEN records[i].merged_at # NullTime
                          ELSE records[i].state = "closed" })

\* the sum of a counter over the repositories of repoStats
RECURSIVE SumOver(_, _, _)
SumOver(repoStats, keys, counter) ==
    IF keys = {} THEN 0
    ELSE LET k == CHOOSE k \in keys : TRUE
         IN  repoStats[k][counter] + SumOver(repoStats, keys \ {k}, counter)

\* the processIssueData step of init
C23_Step ==
    (aggPc = "reviewsProcessed" /\ aggPc' = "issuesProcessed") =>
        LET issues == round["issues"].result
            before == stats.repoStats
            after  == stats'.repoStats
        IN  /\ DOMAIN after =
                  { prs[i].repository : i \in 1..Len(prs) }
                      \cup { issues[i].repository : i \in 1..Len(issues) }
            /\ \A repo \in DOMAIN after :
                  /\ after[repo].total = CountOf(prs, repo, FALSE)
                  /\ after[repo].merged = CountOf(prs, repo, TRUE)
                  /\ after[repo].issues = CountOf(issues, repo, FALSE)
                  /\ after[repo].closedIssues = CountOf(issues, repo, TRUE)
            /\ \A repo \in DOMAIN before :
                  /\ repo \in DOMAIN after
                  /\ after[repo].total = before[repo].total
                  /\ after[repo].merged = before[repo].merged
            /\ stats'.totalIssues = SumOver(after, DOMAIN after, "issues")
            /\ stats'.closedIssues = SumOver(after, DOMAIN after, "closedIssues")

\* C23: after processPRData and processIssueData every repository key of
\* repoStats has total and merged equal to the numbers of processed and of
\* merged PR records of the repository, and issues and closedIssues equal to
\* the numbers of processed and of closed issue records of the repository;
\* the issue fold leaves total and merged as they were; totalIssues and
\* closedIssues are the sums of the per-repository issue counters.
C23_RepoStatsConsistent == [][C23_Step]_vars

\* the issues were folded in after the PRs: a repository with a merged PR
\* has an open and a closed issue
C23_Witness ==
    /\ aggPc = "issuesProcessed"
    /\ r1 \in DOMAIN stats.repoStats
    /\ stats.repoStats[r1].total = 2
    /\ stats.repoStats[r1].merged = 1
    /\ stats.repoStats[r1].issues = 2
    /\ stats.repoStats[r1].closedIssues = 1
    /\ stats.totalIssues = 2

(***************************************************************************)
(* Concurrent requests on one client (specification SharedCacheSpec)       *)
(***************************************************************************)
\* init of a dashboard of one repository: getAllPullRequests and
\* getAllReviews request the same pull request pages, and getAllIssues and
\* the review requests run beside them
SharedCacheInit ==
    AboutToInit({ [organization |-> NoOrganization, repositories |-> <<r1>>] })

SharedCacheNext ==
    \/ Resolved
    \/ \E kind \in Kinds, i \in 1..Len(repositories) : ResponseOk(kind, i)
    \/ \E kind \in Kinds, i \in 1..Len(repositories) : ResponseError(kind, i)
    \/ \E kind \in Kinds : Settle(kind)
    \/ RevResponseOk
    \/ RevResponseError
    \/ \E j \in 1..Len(rev.replies) : ReviewsOk(j)
    \/ \E j \in 1..Len(rev.replies) : ReviewsError(j)
    \/ RevSettle
    \/ Fetched
    \/ Tick
    \/ LookupNext

SharedCacheSpec == SharedCacheInit /\ [][SharedCacheNext]_vars

\* what a successful fetch of the URL u returns
Payload(u) ==
    IF u[1] \in {"repos", "users"} THEN DetailObject(u)
    ELSE IF u[1] = "reviews"
    THEN server[<<u[2], u[3]>>]["reviews"][u[4]]
    ELSE ServerPage(server[<<u[2], u[3]>>][u[1]], u[1], u[5])

\* the URLs whose pending makeRequest call returns (ok) or rejects (~ok) in
\* the step: calls of the collectors of getAllPullRequests and getAllIssues,
\* of the collector of getAllReviews, of fetchReviews, and of fetchRepository
\* and fetchUser
Completed(ok) ==
    { listingUrl(k, repositories[i][1], repositories[i][2], coll[k][i].page) :
        <<k, i>> \in { ki \in Kinds \X (1..Len(repositories)) :
                         /\ coll[ki[1]][ki[2]].pc = "awaiting"
                         /\ coll'[ki[1]][ki[2]] # coll[ki[1]][ki[2]]
                         /\ coll'[ki[1]][ki[2]].failed = ~ok } }
    \cup (IF /\ rev.pc = "collecting" /\ rev.c.pc = "awaiting"
             /\ rev' # rev /\ rev'.c.failed = ~ok
          THEN { listingUrl("pulls", repositories[rev.i][1], repositories[rev.i][2],
                            rev.c.page) }
          ELSE {})
    \cup (IF rev.pc = "reviews" /\ rev'.pc = "reviews"
          THEN { reviewsUrl(repositories[rev.i][1], repositories[rev.i][2],
                            rev.c.all[j].number) :
                   j \in { n \in 1..Len(rev.replies) :
                             /\ rev.replies[n].pc = "awaiting"
                             /\ rev'.replies[n].pc = (IF ok THEN "ok" ELSE "failed") } }
          ELSE {})
    \cup { lookups.calls[j].url :
             j \in { n \in 1..Len(lookups.calls) :
                       /\ lookups.calls[n].pc = "awaiting"
                       /\ lookups'.calls[n].pc = (IF ok THEN "ok" ELSE "failed") } }

\* a step seen from the cache
C24_Step ==
    /\ DOMAIN cache \subseteq DOMAIN cache'
    /\ \A u \in DOMAIN cache' :
          (u \notin DOMAIN cache \/ cache'[u] # cache[u]) => u \in Completed(TRUE)
    /\ \A u \in Completed(TRUE) :
          /\ u \in DOMAIN cache'
          /\ cache'[u] = [data |-> Payload(u), timestamp |-> now]
    /\ Completed(FALSE) # {} => cache' = cache

\* C24: under every interleaving of the pending requests of one client, no
\* cache entry is removed; an entry changes only when a request of its URL
\* returns successfully, and is then the pair of the payload of that
\* response and the time at which it was stored; a request that fails
\* leaves the cache as it was; and every entry is such a pair, stored no
\* later than now.
C24_CacheIntegrity ==
    /\ [][C24_Step]_vars
    /\ [](\A u \in DOMAIN cache :
              /\ DOMAIN cache[u] = {"data", "timestamp"}
              /\ cache[u].data = Payload(u)
              /\ cache[u].timestamp <= now)

\* getAllPullRequests and getAllReviews both missed the cache for page 1 of
\* the same listing and both fetched it successfully; the entry carries the
\* time of the later response, five minutes after the requests were sent
C24_Witness ==
    /\ rev.pc = "done"
    /\ coll["pulls"][1].pc = "done" /\ ~coll["pulls"][1].failed
    /\ coll["pulls"][1].requests = 1
    /\ ~rev.c.failed /\ rev.c.requests = 1 /\ rev.fetches >= 1
    /\ now = CacheTTL
    /\ listingUrl("pulls", r1[1], r1[2], 1) \in DOMAIN cache
    /\ cache[listingUrl("pulls", r1[1], r1[2], 1)].timestamp = CacheTTL

\* position of the first record of a listing, of whatever shape, created
\* before the window starts; 0 if the listing has none
FirstOldRecord(L) ==
    LET old(j) == L[j].created_at < startDate
    IN  IF \E j \in 1..Len(L) : old(j)
        THEN CHOOSE j \in 1..Len(L) : old(j) /\ \A h \in 1..(j - 1) : ~old(h)
        ELSE 0

\* C29: fetchIssues requests no page beyond the page of the first record of
\* the listing, issue or pull request, that was created before the window
\* starts.
C29_StopsAtFirstOldRecord ==
    LET L == Listing(r1, "issues")
        K == FirstOldRecord(L)
        c == TheCollector("issues")
    IN  K > 0 => c.requests <= PageOf(K)

(***************************************************************************)
(* A fan-out round runs to completion (specification FanOutLiveSpec)       *)
(***************************************************************************)
\* the steps the event loop owes to a running round: the continuation of a
\* collector whose payload or whose failure has arrived, and the
\* continuation of the caller once Promise.allSettled has settled
FanOutProgress ==
    \/ \E kind \in Kinds, i \in 1..Len(repositories) : CachedPage(kind, i)
    \/ \E kind \in Kinds, i \in 1..Len(repositories) : ResponseOk(kind, i)
    \/ \E kind \in Kinds, i \in 1..Len(repositories) : ResponseError(kind, i)
    \/ \E kind \in Kinds : Settle(kind)

\* a round is running: one of the steps of FanOutProgress is possible
FanOutBusy == \E kind \in Kinds : round[kind].pc = "running"

\* three repositories, and every individual fetch eventually completes:
\* the steps of FanOutProgress are not postponed for ever
FanOutLiveSpec ==
    FanOutSpec /\ ([]<>(~FanOutBusy) \/ []<><<FanOutProgress>>_vars)

\* the collection of repository i of the kind is in flight
Collecting(kind, i) == coll[kind][i].pc \in {"awaiting", "cached"}

C26_Step ==
    \A kind \in Kinds :
        \* the result is assembled only after every collection has settled,
        \* and the assembly leaves the collections as they are
        /\ round[kind].pc = "running" /\ round'[kind].pc # "running"
              => /\ \A i \in 1..Len(repositories) : coll[kind][i].pc = "done"
                 /\ coll'[kind] = coll[kind]
        /\ round[kind].pc = "running" =>
              \A i \in 1..Len(repositories) :
                  \* a collection that has settled keeps its outcome
                  /\ coll[kind][i].pc = "done" => coll'[kind][i] = coll[kind][i]
                  \* a collection in flight moves only by its own payload
                  \* or failure: its siblings are where they were, and it
                  \* fails only if its own request was on the network
                  /\ Collecting(kind, i) /\ coll'[kind][i] # coll[kind][i]
                        => /\ \A j \in 1..Len(repositories) \ {i} :
                                 coll'[kind][j] = coll[kind][j]
                           /\ coll'[kind][i].requests >= coll[kind][i].requests
                           /\ coll'[kind][i].failed => coll[kind][i].pc = "awaiting"
                           /\ Len(coll'[kind][i].all) >= Len(coll[kind][i].all)

\* C26: once getAllPullRequests or getAllIssues has started, the result is
\* assembled only when every repository's collection has settled, no
\* collection is stopped or altered by the failure or the completion of a
\* sibling, every collection in flight settles and the round returns,
\* provided every individual fetch eventually completes.
C26_RoundRunsToCompletion ==
    /\ [][C26_Step]_vars
    /\ \A kind \in Kinds :
          /\ round[kind].pc = "running" ~> round[kind].pc = "done"
          /\ \A i \in 1..3 :
                (Len(repositories) >= i /\ Collecting(kind, i))
                    ~> coll[kind][i].pc = "done"

\* the first collection of getAllPullRequests has failed and the last has
\* finished while the middle one, whose listing has records, is still
\* waiting for its first response; the round is still running
C26_Witness ==
    /\ round["pulls"].pc = "running"
    /\ coll["pulls"][1].pc = "done" /\ coll["pulls"][1].failed
    /\ coll["pulls"][3].pc = "done" /\ ~coll["pulls"][3].failed
    /\ Len(coll["pulls"][3].all) > 0
    /\ coll["pulls"][2].pc = "awaiting" /\ coll["pulls"][2].requests = 1
    /\ ListingLen(server[r2]["pulls"]) > 0

(***************************************************************************)
(* The merged output follows the repository list (MergeOrderSpec)          *)
(***************************************************************************)
\* three repositories whose pull requests were merged during the window:
\* bob's in the first, alice's and bob's in the second, carol's in the third
MergeOrderServer ==
    [r \in {r1, r2, r3} |->
        [pulls |->
            IF r = r1
            THEN [newer |-> <<RawPR(31, bob, title_fix, At(3, 100), Time(At(3, 200)))>>,
                  fill |-> 0, older |-> <<>>]
            ELSE IF r = r2
            THEN [newer |-> <<RawPR(21, alice, title_fix, At(2, 100), Time(At(2, 200))),
                              RawPR(22, bob, title_fix, At(2, 50), Time(At(2, 300)))>>,
                  fill |-> 0, older |-> <<>>]
            ELSE [newer |-> <<RawPR(11, carol, title_fix, At(1, 100), Time(At(1, 200)))>>,
                  fill |-> 0, older |-> <<prOld>>],
         issues |-> ActiveServer.issues]]

MergeOrderInit ==
    /\ repositories = <<r1, r2, r3>>
    /\ server = MergeOrderServer
    /\ FreshClient

MergeOrderSpec == MergeOrderInit /\ [][FetchNext]_vars

\* the logins of the authors of the first n records, each once, in the
\* order of their first record
RECURSIVE AuthorsInOrder(_, _)
AuthorsInOrder(records, n) ==
    IF n = 0 THEN <<>>
    ELSE LET before == AuthorsInOrder(records, n - 1)
             login == records[n].user.login
         IN  IF \E i \in 1..Len(before) : before[i] = login THEN before
             ELSE Append(before, login)

\* what the server lists for the kind in the three repositories, one
\* repository after the other in the order of the repository list, cut at
\* the first record older than the window
ListedInOrder(kind) ==
    ExpectedOutput(kind, repositories[1], maxPages)
        \o ExpectedOutput(kind, repositories[2], maxPages)
        \o ExpectedOutput(kind, repositories[3], maxPages)

\* C27: whatever order the fetches complete in, the sequence a fan-out
\* round returns is the first repository's result followed by the second's
\* and the third's; when no fetch failed it is determined by the server's
\* listings alone, and so are the order in which processPRData creates the
\* rollups (the authors in the order of the repository list) and the
\* leaderboard built from them.
C27_MergeInListOrder ==
    \A kind \in Kinds :
        round[kind].pc = "done" =>
            LET merged == round[kind].result
                complete == \A i \in 1..3 : ~coll[kind][i].failed
                rollups == processPRData(merged, startDate, endDate, tz).participants
                board == generateLeaderboard(rollups, 10)
            IN  /\ merged = coll[kind][1].all \o coll[kind][2].all \o coll[kind][3].all
                /\ \A i, j \in 1..Len(merged) :
                      i < j => \E a, b \in 1..3 :
                                  /\ a <= b
                                  /\ merged[i].repository = repositories[a]
                                  /\ merged[j].repository = repositories[b]
                /\ complete => merged = ListedInOrder(kind)
                /\ complete /\ kind = "pulls" =>
                      /\ [i \in 1..Len(rollups) |-> rollups[i].user.username]
                            = AuthorsInOrder(ListedInOrder(kind),
                                             Len(ListedInOrder(kind)))
                      /\ [i \in 1..Len(board) |-> <<board[i].username, board[i].count>>]
                            = << <<bob, 2>>, <<alice, 1>>, <<carol, 1>> >>

\* getAllPullRequests has returned the records of the three repositories,
\* the first repository's first, although the third repository's whole
\* collection was over before the first repository's first response arrived
C27_Witness ==
    /\ round["pulls"].pc = "done"
    /\ \A i \in 1..3 : ~coll["pulls"][i].failed
    /\ coll["pulls"][3].requests = 1
    /\ listingUrl("pulls", "o", "r3", 1) \in DOMAIN cache
    /\ listingUrl("pulls", "o", "r1", 1) \in DOMAIN cache
    /\ cache[listingUrl("pulls", "o", "r3", 1)].timestamp
          < cache[listingUrl("pulls", "o", "r1", 1)].timestamp
    /\ Len(round["pulls"].result) = 4
    /\ round["pulls"].result[1].repository = r1
    /\ round["pulls"].result[4].repository = r3

(***************************************************************************)
(* The stages of one init and the shared cache (specification InitSpec)    *)
(***************************************************************************)
\* the cache holds a payload for the URL that is younger than 5 minutes
FreshEntry(theCache, url, time) ==
    url \in DOMAIN theCache /\ time - theCache[url].timestamp < CacheTTL

\* the URL of the page the review stage's collector is at
RevUrl(rv, repos) ==
    listingUrl("pulls", repos[rv.i][1], repos[rv.i][2], rv.c.page)

\* the URL of the page the pull request stage's collector i is at
PullsUrl(collectors, repos, i) ==
    listingUrl("pulls", repos[i][1], repos[i][2], collectors[i].page)

\* the step makes the review stage call makeRequest for a listing page
RevCallsMakeRequest ==
    /\ rev'.pc = "collecting" /\ rev'.c.pc \in {"awaiting", "cached"}
    /\ rev.pc # "collecting" \/ rev'.i # rev.i \/ rev'.c.page # rev.c.page

\* the step makes collector i of the pull request stage call makeRequest
PullsCallsMakeRequest(i) ==
    /\ coll'["pulls"][i].pc \in {"awaiting", "cached"}
    /\ Len(coll["pulls"]) < i \/ coll'["pulls"][i].page # coll["pulls"][i].page

C28_Step ==
    /\ RevCallsMakeRequest =>
          (rev'.c.pc = "cached" <=> FreshEntry(cache', RevUrl(rev', repositories'), now'))
    /\ \A i \in 1..Len(repositories') :
          PullsCallsMakeRequest(i) =>
             (coll'["pulls"][i].pc = "cached"
                 <=> FreshEntry(cache', PullsUrl(coll'["pulls"], repositories', i), now'))

\* C28 (as the code has it): during one init each stage sends a pull request
\* listing page to the network exactly when the cache holds no payload of
\* the page younger than 5 minutes at the time of the call, and takes the
\* cached payload otherwise; the two stages are started together with an
\* empty cache, so the first page of the first repository is requested by
\* both, and the review stage is served from the cache for the pages whose
\* response has arrived before it asks for them.
C28_CachedWhenArrived ==
    /\ [][C28_Step]_vars
    /\ [](aggPc = "fetching" /\ rev.pc = "collecting" /\ rev.i = 1 /\ rev.c.page = 1
             => rev.c.pc = "awaiting")

\* the review stage has fetched the first repository's page from the
\* network and finds the second repository's page in the cache, the pull
\* request stage having received it
C28_Witness ==
    /\ aggPc = "fetching"
    /\ rev.pc = "collecting" /\ rev.i = 2 /\ rev.c.pc = "cached"
    /\ rev.fetches >= 1
    /\ coll["pulls"][2].pc = "done" /\ ~coll["pulls"][2].failed
    /\ coll["pulls"][1].requests = 1

\* C28 (as stated): no pull request listing page is requested from the
\* network more than once during one init: the two stages never wait for
\* the same page at the same time, and no stage waits for a page whose
\* payload is in the cache.
C28_PullPagesRequestedOnce ==
    aggPc = "fetching" =>
        /\ \A i \in 1..Len(repositories) :
              ~ /\ coll["pulls"][i].pc = "awaiting"
                /\ rev.pc = "collecting" /\ rev.c.pc = "awaiting"
                /\ RevUrl(rev, repositories) = PullsUrl(coll["pulls"], repositories, i)
        /\ rev.pc = "collecting" /\ rev.c.pc = "awaiting"
              => RevUrl(rev, repositories) \notin DOMAIN cache
        /\ \A i \in 1..Len(repositories) :
              coll["pulls"][i].pc = "awaiting"
                 => PullsUrl(coll["pulls"], repositories, i) \notin DOMAIN cache

(***************************************************************************)
(* Snapshot mode: init of main.js (specification SnapshotSpec)             *)
(***************************************************************************)
\* bound: entries of a leaderboard array of the snapshot
MaxBoard == 2

\* display.maxLeaderboardEntries of the documented configuration
defaultMaxLeaderboardEntries == 10

\* the values of config.display.maxLeaderboardEntries of the pages: the
\* small ones, the documented one and a larger one
DisplayLimits == (0..MaxLimit) \cup {defaultMaxLeaderboardEntries, 15}

\* p.field || 0
orZero(p, field) == IF field \in DOMAIN p /\ p[field] # 0 THEN p[field] ELSE 0

\* p.field || []
orEmptyArray(p, field) == IF field \in DOMAIN p THEN p[field] ELSE <<>>

\* participants.set(p.username, {...})
snapshotParticipant(p) ==
    [user |-> [username |-> p.username, email |-> "",
               id |-> contributorId(p.username)],
     count |-> orZero(p, "mergedCount"),
     prs |-> <<>>,
     is_contributor |-> TRUE,
     avatar |-> p.avatar,
     url |-> p.url,
     mergedCount |-> orZero(p, "mergedCount"),
     reviewCount |-> orZero(p, "reviewCount"),
     reviews |-> orEmptyArray(p, "reviews")]

\* allParticipants.forEach over the first n entries: the first entry of a
\* username creates the participant, a later entry of it is passed over
RECURSIVE reconstructParticipants(_, _)
reconstructParticipants(allParticipants, n) ==
    IF n = 0 THEN <<>>
    ELSE LET participants == reconstructParticipants(allParticipants, n - 1)
             p == allParticipants[n]
         IN  IF \E i \in 1..Len(participants) :
                    participants[i].user.username = p.username
             THEN participants
             ELSE Append(participants, snapshotParticipant(p))

\* updateStats of main.js: the explicit participantCount when the snapshot
\* has one, the size of the Map otherwise
updateStatsSnapshot(s, resolved) ==
    [participantCount |->
        IF "participantCount" \in DOMAIN s THEN s.participantCount
        ELSE Len(s.participants),
     prCount |-> s.totalPRs,
     mergedPrCount |-> s.mergedPRs,
     issueCount |-> s.totalIssues,
     repoCount |-> Len(resolved)]

\* an entry of stats.leaderboard, with the fields of a generateLeaderboard
\* entry that the reconstruction reads
BoardEntry(login, merged) ==
    [username |-> login, avatar |-> <<"avatar", login>>,
     url |-> <<"profile", login>>, mergedCount |-> merged]

\* an entry of stats.reviewLeaderboard, with the fields of a
\* generateReviewLeaderboard entry that the reconstruction reads
ReviewEntry(login, n) ==
    [username |-> login, avatar |-> <<"avatar", login>>,
     url |-> <<"profile", login>>, reviewCount |-> n,
     reviews |-> [k \in 1..n |-> <<"review", login, k>>]]

\* a leaderboard entry that carries the review fields as well
FullEntry(login, merged, n) ==
    [username |-> login, avatar |-> <<"avatar", login>>,
     url |-> <<"profile", login>>, mergedCount |-> merged, reviewCount |-> n,
     reviews |-> [k \in 1..n |-> <<"review", login, k>>]]

BoardEntries ==
    { BoardEntry(u, m) : u \in {alice, bob}, m \in 1..2 } \cup { FullEntry(alice, 2, 1) }

ReviewEntries == { ReviewEntry(u, n) : u \in {alice, carol}, n \in 1..2 }

\* the arrays a snapshot can hold: at most MaxBoard entries of distinct
\* usernames in descending order of the metric
Boards(entries, metric) ==
    { b \in UNION { [1..n -> entries] : n \in 0..MaxBoard } :
        \A i, j \in 1..Len(b) :
            i < j => b[i].username # b[j].username /\ b[i][metric] >= b[j][metric] }

\* the "stats" object of hackathon-data/<slug>.json, with or without an
\* explicit participantCount
SnapshotStats ==
    { [leaderboard |-> lb, reviewLeaderboard |-> rb,
       totalPRs |-> 3, mergedPRs |-> 2, totalIssues |-> 1, closedIssues |-> 0] :
        lb \in Boards(BoardEntries, "mergedCount"),
        rb \in Boards(ReviewEntries, "reviewCount") }
    \cup
    { [leaderboard |-> lb, reviewLeaderboard |-> rb, participantCount |-> Len(lb),
       totalPRs |-> 3, mergedPRs |-> 2, totalIssues |-> 1, closedIssues |-> 0] :
        lb \in Boards(BoardEntries, "mergedCount"),
        rb \in {<<>>, <<ReviewEntry(carol, 1)>>} }

\* the page is about to call init; the server holds the snapshot file
SnapshotInit ==
    /\ repositories = <<>>
    /\ \E s \in SnapshotStats :
          server = [statsFile |-> [repositories |-> <<r1>>, stats |-> s]]
    /\ \E maxLeaderboardEntries \in DisplayLimits :
          config = [organization |-> NoOrganization, repositories |-> <<r1>>,
                    display |-> [maxLeaderboardEntries |-> maxLeaderboardEntries]]
    /\ startDate = FetchStart /\ endDate = FetchEnd /\ tz = UTC
    /\ now = 0
    /\ cache = EmptyObject
    /\ lookups = NoLookups
    /\ coll = [k \in Kinds |-> <<>>]
    /\ round = [k \in Kinds |-> IdleRound]
    /\ orgListing = NotRequested
    /\ rev = IdleReviews
    /\ view = LoadingView
    /\ prs = <<>> /\ reviews = <<>> /\ aggPc = "loading"
    /\ stats = NoStats /\ limit = 0 /\ call = NoCall /\ leaderboard = <<>> /\ reviewLeaderboard = <<>>

\* the message of the error init throws for a response that is not ok (the
\* dash of the source is written as a hyphen)
msg_statsNotAvailable(status) ==
    <<"Stats file not available (HTTP ", status,
      "). Data may not have been generated yet - please wait for the hourly refresh or trigger it manually.">>

\* the messages fetchError can carry, each as the sequence of its parts: the
\* error of a response that is not ok, the error of a fetch that rejects
\* (no connection), and the error of response.json() for a body that is not
\* JSON
StatsErrors ==
    { msg_statsNotAvailable(status) : status \in {404, 500} }
    \cup { <<"Failed to fetch">>, <<"Unexpected token '<' is not valid JSON">> }

\* `Unable to load hackathon stats: ${fetchError.message}`
msg_statsUnavailable(message) == <<"Unable to load hackathon stats: ">> \o message

\* the snapshot has been fetched and parsed: the participants are
\* reconstructed, the statistics are written and the two leaderboards are
\* rendered with the configured display.maxLeaderboardEntries
SnapshotLoaded ==
    /\ aggPc = "loading"
    /\ LET statsData == server.statsFile
           s == statsData.stats
           allParticipants == s.leaderboard \o s.reviewLeaderboard
           participants == reconstructParticipants(allParticipants, Len(allParticipants))
           shown == [x \in (DOMAIN s \cap {"participantCount"}) \cup
                           {"participants", "totalPRs", "mergedPRs",
                            "totalIssues", "closedIssues"} |->
                        IF x = "participants" THEN participants
                        ELSE IF x = "participantCount" THEN s.participantCount
                        ELSE orZero(s, x)]
       IN  /\ repositories' = statsData.repositories
           /\ stats' = shown
           /\ limit' = config.display.maxLeaderboardEntries
           /\ leaderboard' =
                  generateLeaderboard(participants, config.display.maxLeaderboardEntries)
           /\ reviewLeaderboard' =
                  generateReviewLeaderboard(participants,
                                            config.display.maxLeaderboardEntries)
           /\ view' = [state |-> "dashboard", message |-> "",
                       shown |-> <<updateStatsSnapshot(shown, statsData.repositories)>>]
    /\ aggPc' = "rendered"
    /\ UNCHANGED <<server, lookups, now, cache, coll, round, config, orgListing, rev,
                   tz, call, startDate, endDate, prs, reviews>>

\* the snapshot could not be loaded (the response is not ok, the fetch
\* rejects or the body does not parse): the catch block shows the message
\* of the error, whatever it is, and init returns
SnapshotUnavailable ==
    /\ aggPc = "loading"
    /\ \E message \in StatsErrors : view' = showError(msg_statsUnavailable(message))
    /\ aggPc' = "failed"
    /\ UNCHANGED <<fetchVars, config, orgListing, rev, tz, call, startDate, endDate, prs, reviews,
                   stats, limit, leaderboard, reviewLeaderboard>>

SnapshotNext == SnapshotLoaded \/ SnapshotUnavailable

SnapshotSpec == SnapshotInit /\ [][SnapshotNext]_vars

\* the entry of the username in an array of the snapshot
EntryOf(board, username) ==
    board[CHOOSE i \in 1..Len(board) : board[i].username = username]

Usernames(board) == { board[i].username : i \in 1..Len(board) }

\* C30: in snapshot mode every username of the snapshot's leaderboard or
\* reviewLeaderboard has exactly one reconstructed participant, a username
\* of both arrays has the mergedCount of its leaderboard entry and the
\* reviewCount and reviews of its reviewLeaderboard entry, and the rendered
\* review leaderboard lists the users and counts of the snapshot's
\* reviewLeaderboard, as many of them as display.maxLeaderboardEntries
\* admits.
C30_SnapshotReconstruction ==
    aggPc = "rendered" =>
        LET s == server.statsFile.stats
            lb == s.leaderboard
            rb == s.reviewLeaderboard
            participants == stats.participants
            of(u) == { i \in 1..Len(participants) : participants[i].user.username = u }
        IN  /\ \A u \in Usernames(lb) \cup Usernames(rb) : Cardinality(of(u)) = 1
            /\ \A i \in 1..Len(participants) :
                  participants[i].user.username \in Usernames(lb) \cup Usernames(rb)
            /\ \A u \in Usernames(lb) \cap Usernames(rb) :
                  \A i \in of(u) :
                      /\ participants[i].mergedCount = EntryOf(lb, u).mergedCount
                      /\ participants[i].reviewCount = EntryOf(rb, u).reviewCount
                      /\ participants[i].reviews = EntryOf(rb, u).reviews
            /\ [i \in 1..Len(reviewLeaderboard) |->
                    <<reviewLeaderboard[i].username, reviewLeaderboard[i].reviewCount>>]
                  = [i \in 1..Len(slice0(rb, limit)) |->
                        <<rb[i].username, rb[i].reviewCount>>]

====
